---- MODULE Spec2Model ----
(***************************************************************************)
(* A model of the Sherpa browser extension's section-mapping engine:       *)
(*   - the content script (parsePageForMapping, navigateToSection, the     *)
(*     current-section locator),                                            *)
(*   - the popup's immersive-summary synchronizer (parseTimeToSeconds,      *)
(*     findMatchingSectionId, handleAudioTimeUpdate, playImmersiveSummary). *)
(* Text is modelled as a sequence of one-character strings so that trim,   *)
(* toLowerCase, startsWith, substring, split and parseInt are computed.    *)
(* Element ids are TLA+ strings, "" standing for "no id".                  *)
(***************************************************************************)
EXTENDS Integers, Sequences, FiniteSets, TLC

VARIABLES
    document,             \* content script: the live DOM, a preorder sequence of elements
    sections,             \* content script: sections returned by the latest mapping pass
    prevSections,         \* sections returned by the mapping pass before the latest one
    passes,               \* number of mapping passes run so far
    request,              \* the latest message received by the content script
    response,             \* value handed to sendResponse by the latest command
    scrolledTo,           \* element index last scrolled into view (0: none yet)
    scrollY,              \* window.scrollY
    viewportHeight,       \* window.innerHeight
    timeString,           \* argument of the latest parseTimeToSeconds call
    parsedTime,           \* its result
    pageStructureData,    \* popup: page structure received from the content script
    pollingInterval,      \* popup: TRUE while the polling interval is set
    immersiveSummaryAudio,\* popup: the Audio element, or NoAudio
    immersivePlaybackTimes,\* popup: the parsed, sorted segment list
    currentSectionIndex,  \* popup: the synchronizer cursor
    timeupdateAttached,   \* popup: handleAudioTimeUpdate registered on the audio
    navRequests,          \* navigate_to_section requests issued by the latest callback
    lastEvent,            \* name of the latest popup event
    viewportWidth,        \* window.innerWidth
    pageImages,           \* the img elements of the page, in document order
    textTarget,           \* argument of the latest extractSectionText call (element index)
    sectionText,          \* its result
    sectionName,          \* argument of the latest findMatchingSectionId call
    matchedId,            \* its result
    sherpaDock,           \* content script: TRUE while the dock element exists
    dockAudio,            \* content script: index of the dock's Audio element (0: null)
    audioElements,        \* the Audio elements created for the dock so far
    autoPlayTimers,       \* number of pending auto-play timeouts
    transcriptSegments,   \* content script: the words of the transcript
    wordClasses,          \* class of each word span of the dock ("", "spoken", "active")
    isPlaying,            \* content script: isPlaying
    lastDockEvent,        \* name of the latest dock event
    analysisPc,           \* background: position of the handlePageAnalysis run
    autoTriggered,        \* background: the autoTriggered option of the run
    analysisLog,          \* what the run has emitted so far, in order
    analysisResponse,     \* value handed to sendResponse for page_structure_extracted
    utterance,            \* the utterance chrome.tts is speaking ("none": silent)
    speakTextPending,     \* TRUE while a speak_text request awaits its speech
    analyses,             \* number of analyses started so far
    pollCount,            \* popup: pollCount of the latest startPollingForImmersiveSummary call
    inFlight,             \* poll requests awaiting their response, by the call they belong to
    activeIntervals,      \* number of polling intervals that are set
    buttonState,          \* popup: state last given to setImmersiveSummaryButtonState
    buttonHandler,        \* popup: click handler of the button ("create" or "play")
    jobs,                 \* number of immersive-summary jobs started so far
    keydownListeners,     \* content script: keydown listeners setupKeyboardShortcuts has added to the document
    keyEffect             \* what the latest key press did: calls of togglePlayPause on an audio, calls of closeDock

vars == <<document, sections, prevSections, passes, request, response, scrolledTo,
          scrollY, viewportHeight, timeString, parsedTime,
          pageStructureData, pollingInterval, immersiveSummaryAudio,
          immersivePlaybackTimes, currentSectionIndex, timeupdateAttached,
          navRequests, lastEvent, viewportWidth, pageImages,
          textTarget, sectionText, sectionName, matchedId,
          sherpaDock, dockAudio, audioElements, autoPlayTimers, transcriptSegments,
          wordClasses, isPlaying, lastDockEvent,
          analysisPc, autoTriggered, analysisLog, analysisResponse, utterance, speakTextPending, analyses,
          pollCount, inFlight, activeIntervals, buttonState, buttonHandler, jobs,
          keydownListeners, keyEffect>>

contentVars == <<document, sections, prevSections, passes, request, response, scrolledTo>>
viewportVars == <<scrollY, viewportHeight>>
timeVars == <<timeString, parsedTime>>
popupVars == <<pageStructureData, pollingInterval, immersiveSummaryAudio,
               immersivePlaybackTimes, currentSectionIndex, timeupdateAttached,
               navRequests, lastEvent>>
backgroundVars == <<analysisPc, autoTriggered, analysisLog, analysisResponse, utterance, speakTextPending, analyses>>
pollVars == <<pollCount, inFlight, activeIntervals, buttonState, buttonHandler, jobs>>
keyVars == <<keydownListeners, keyEffect>>
imageVars == <<viewportWidth, pageImages>>
helperVars == <<textTarget, sectionText, sectionName, matchedId>>
dockVars == <<sherpaDock, dockAudio, audioElements, autoPlayTimers, transcriptSegments,
              wordClasses, isPlaying, lastDockEvent>>

-----------------------------------------------------------------------------
(* Bounds of the model *)
MaxNodes == 3
MaxPasses == 2
MaxHeadings == 4
MaxTimeLength == 4
MaxSegments == 3

-----------------------------------------------------------------------------
(* JavaScript string operations on sequences of characters *)

Min(a, b) == IF a < b THEN a ELSE b

UpperChars == <<"A","B","C","D","E","F","G","H","I","J","K","L","M",
                "N","O","P","Q","R","S","T","U","V","W","X","Y","Z">>
LowerChars == <<"a","b","c","d","e","f","g","h","i","j","k","l","m",
                "n","o","p","q","r","s","t","u","v","w","x","y","z">>

LowerOf ==
    [c \in {UpperChars[i] : i \in 1..Len(UpperChars)} |->
        LowerChars[CHOOSE i \in 1..Len(UpperChars) : UpperChars[i] = c]]

ToLowerChar(c) == IF c \in DOMAIN LowerOf THEN LowerOf[c] ELSE c

\* String.prototype.toLowerCase
ToLowerCase(s) == [i \in 1..Len(s) |-> ToLowerChar(s[i])]

IsSpace(c) == c \in {" ", "\n", "\t"}

RECURSIVE TrimStart(_)
TrimStart(s) ==
    IF s # <<>> /\ IsSpace(s[1]) THEN TrimStart(SubSeq(s, 2, Len(s))) ELSE s

RECURSIVE TrimEnd(_)
TrimEnd(s) ==
    IF s # <<>> /\ IsSpace(s[Len(s)]) THEN TrimEnd(SubSeq(s, 1, Len(s) - 1)) ELSE s

\* String.prototype.trim
Trim(s) == TrimEnd(TrimStart(s))

\* String.prototype.startsWith
StartsWith(s, p) == Len(s) >= Len(p) /\ SubSeq(s, 1, Len(p)) = p

\* String.prototype.substring(from, to)
Substring(s, from, to) == SubSeq(s, from + 1, Min(to, Len(s)))

\* String.prototype.includes
Includes(hay, needle) ==
    \E i \in 0..(Len(hay) - Len(needle)) : SubSeq(hay, i + 1, i + Len(needle)) = needle

RECURSIVE Split(_, _)
\* String.prototype.split(sep) for a one-character separator
Split(s, sep) ==
    LET hits == {i \in 1..Len(s) : s[i] = sep}
    IN  IF hits = {} THEN <<s>>
        ELSE LET i == CHOOSE k \in hits : \A j \in hits : k <= j
             IN  <<SubSeq(s, 1, i - 1)>> \o Split(SubSeq(s, i + 1, Len(s)), sep)

\* n copies of the letter x
Pad(n) == [i \in 1..n |-> "x"]

-----------------------------------------------------------------------------
(* The document.  An element is a record                                   *)
(*   tag, role, className, aria (the aria-label attribute), id, parent     *)
(*   (index of the parent element, 0 for document.body), innerText,        *)
(*   textContent, top (offset of its top edge from the top of the page).   *)
(* The sequence is in document order: the parent of an element precedes it *)
(* and is an ancestor-or-self of the element just before it.               *)

GEN_ID_PREFIX == "ctx-nav-target-"

HeadingTags == {"h1", "h2", "h3", "h4", "h5", "h6"}

IsHeading(el) == el.tag \in HeadingTags

\* querySelectorAll('main, footer, nav[role="navigation"], header[role="banner"]')
IsLandmark(el) ==
    \/ el.tag \in {"main", "footer"}
    \/ el.tag = "nav" /\ el.role = "navigation"
    \/ el.tag = "header" /\ el.role = "banner"

RECURSIVE Ancestors(_, _)
\* indices of the proper ancestors of element n, nearest first
Ancestors(doc, n) ==
    IF doc[n].parent = 0 THEN <<>>
    ELSE <<doc[n].parent>> \o Ancestors(doc, doc[n].parent)

\* heading.parentElement?.id  (document.body carries no id)
ParentId(doc, n) == IF doc[n].parent = 0 THEN "" ELSE doc[doc[n].parent].id

\* heading.closest('[id]')?.id : the element itself or its nearest ancestor with an id
ClosestId(doc, n) ==
    LET chain == <<n>> \o Ancestors(doc, n)
        hits  == {i \in 1..Len(chain) : doc[chain[i]].id # ""}
    IN  IF hits = {} THEN ""
        ELSE doc[chain[CHOOSE i \in hits : \A j \in hits : i <= j]].id

\* (heading.innerText || heading.textContent || '').trim()
HeadingText(el) == Trim(IF el.innerText # <<>> THEN el.innerText ELSE el.textContent)

\* el.querySelector('h1,h2,h3,h4'): the first descendant heading of level 1..4
FirstDescendantHeading(doc, n) ==
    LET hits == {m \in 1..Len(doc) :
                    /\ doc[m].tag \in {"h1", "h2", "h3", "h4"}
                    /\ \E i \in 1..Len(Ancestors(doc, m)) : Ancestors(doc, m)[i] = n}
    IN  IF hits = {} THEN 0 ELSE CHOOSE m \in hits : \A k \in hits : m <= k

\* el.tagName.toLowerCase() as a character sequence
TagChars(tag) ==
    CASE tag = "main"   -> <<"m","a","i","n">>
      [] tag = "footer" -> <<"f","o","o","t","e","r">>
      [] tag = "nav"    -> <<"n","a","v">>
      [] tag = "header" -> <<"h","e","a","d","e","r">>
      [] OTHER          -> <<"d","i","v">>

humanLabel(doc, n) ==
    LET el == doc[n]
        h  == FirstDescendantHeading(doc, n)
    IN  IF el.aria # <<>> THEN Trim(el.aria)
        ELSE IF h # 0 /\ HeadingText(doc[h]) # <<>> THEN HeadingText(doc[h])
        ELSE TagChars(el.tag)

-----------------------------------------------------------------------------
(* parsePageForMapping *)

MinHeadingLength == 2
MaxHeadingLength == 100
MaxLabelLength == 80

StopContents == <<"c","o","n","t","e","n","t","s">>
StopMenu == <<"m","e","n","u">>
StopNavigation == <<"n","a","v","i","g","a","t","i","o","n">>
StopEditPrefix == <<"e","d","i","t">>

\* HeadingAccepted with the length test written <= instead of <
HeadingAccepted_RejectsTwoChars(text) ==
    LET lowerText == ToLowerCase(text)
    IN  /\ ~(text = <<>> \/ Len(text) <= MinHeadingLength)
        /\ ~(\/ lowerText = StopContents
             \/ lowerText = StopMenu
             \/ lowerText = StopNavigation
             \/ StartsWith(lowerText, StopEditPrefix)
             \/ Len(text) > MaxHeadingLength)

\* the two early returns of the headings loop, negated
HeadingAccepted(text) ==
    LET lowerText == ToLowerCase(text)
    IN  /\ ~(text = <<>> \/ Len(text) < MinHeadingLength)
        /\ ~(\/ lowerText = StopContents
             \/ lowerText = StopMenu
             \/ lowerText = StopNavigation
             \/ StartsWith(lowerText, StopEditPrefix)
             \/ Len(text) > MaxHeadingLength)

\* `${GEN_ID_PREFIX}heading-${counter}` and `${GEN_ID_PREFIX}landmark-${counter}`
GenId(kind, counter) == GEN_ID_PREFIX \o kind \o "-" \o ToString(counter)

\* own id, else the parent's id, else the id of closest('[id]'); "" when none is found
ResolveHeadingId(doc, n) ==
    LET own    == doc[n].id
        viaPar == IF own = "" /\ ParentId(doc, n) # "" THEN ParentId(doc, n) ELSE own
    IN  IF viaPar = "" THEN ClosestId(doc, n) ELSE viaPar

HeadingLabel(text) == Substring(text, 0, MaxLabelLength)

\* HeadingStep reporting a synthesized id without writing it onto the heading
HeadingStep_IdNotWritten(st, n) ==
    LET el   == st.doc[n]
        text == HeadingText(el)
    IN  IF ~IsHeading(el) \/ ~HeadingAccepted(text) THEN st
        ELSE LET found == ResolveHeadingId(st.doc, n)
                 id    == IF found = "" THEN GenId("heading", st.counter) ELSE found
             IN  [doc      |-> st.doc,
                  sections |-> Append(st.sections,
                                  [id |-> id, label |-> HeadingLabel(text), role |-> "heading",
                                   level |-> el.tag, type |-> "content", node |-> n]),
                  counter  |-> IF found = "" THEN st.counter + 1 ELSE st.counter]

\* one iteration of headings.forEach; st = [doc, sections, counter]
HeadingStep(st, n) ==
    LET el   == st.doc[n]
        text == HeadingText(el)
    IN  IF ~IsHeading(el) \/ ~HeadingAccepted(text) THEN st
        ELSE LET found == ResolveHeadingId(st.doc, n)
                 id    == IF found = "" THEN GenId("heading", st.counter) ELSE found
             IN  [doc      |-> IF found = "" THEN [st.doc EXCEPT ![n].id = id] ELSE st.doc,
                  sections |-> Append(st.sections,
                                  [id |-> id, label |-> HeadingLabel(text), role |-> "heading",
                                   level |-> el.tag, type |-> "content", node |-> n]),
                  counter  |-> IF found = "" THEN st.counter + 1 ELSE st.counter]

\* label && label !== 'div' && label !== el.tagName.toLowerCase()
LandmarkLabelMeaningful(label, tag) ==
    label # <<>> /\ label # <<"d","i","v">> /\ label # TagChars(tag)

\* LandmarkStep without the test that the landmark has no id yet
LandmarkStep_OverwritesId(st, n) ==
    LET el == st.doc[n]
    IN  IF ~IsLandmark(el) THEN st
        ELSE LET id    == GenId("landmark", st.counter)
                 doc2  == [st.doc EXCEPT ![n].id = id]
                 label == humanLabel(doc2, n)
             IN  [doc      |-> doc2,
                  sections |-> IF LandmarkLabelMeaningful(label, el.tag)
                               THEN Append(st.sections,
                                       [id |-> id, label |-> label,
                                        role |-> IF el.role # "" THEN el.role ELSE el.tag,
                                        type |-> "landmark", node |-> n])
                               ELSE st.sections,
                  counter  |-> st.counter + 1]

\* LandmarkStep resolving the id as HeadingStep does, ancestors consulted
LandmarkStep_AncestorFallback(st, n) ==
    LET el == st.doc[n]
    IN  IF ~IsLandmark(el) THEN st
        ELSE LET found == ResolveHeadingId(st.doc, n)
                 gen   == found = ""
                 id    == IF gen THEN GenId("landmark", st.counter) ELSE found
                 doc2  == IF gen THEN [st.doc EXCEPT ![n].id = id] ELSE st.doc
                 label == humanLabel(doc2, n)
             IN  [doc      |-> doc2,
                  sections |-> IF LandmarkLabelMeaningful(label, el.tag)
                               THEN Append(st.sections,
                                       [id |-> id, label |-> label,
                                        role |-> IF el.role # "" THEN el.role ELSE el.tag,
                                        type |-> "landmark", node |-> n])
                               ELSE st.sections,
                  counter  |-> IF gen THEN st.counter + 1 ELSE st.counter]

\* one iteration of landmarks.forEach
LandmarkStep(st, n) ==
    LET el == st.doc[n]
    IN  IF ~IsLandmark(el) THEN st
        ELSE LET gen   == el.id = ""
                 id    == IF gen THEN GenId("landmark", st.counter) ELSE el.id
                 doc2  == IF gen THEN [st.doc EXCEPT ![n].id = id] ELSE st.doc
                 label == humanLabel(doc2, n)
             IN  [doc      |-> doc2,
                  sections |-> IF LandmarkLabelMeaningful(label, el.tag)
                               THEN Append(st.sections,
                                       [id |-> id, label |-> label,
                                        role |-> IF el.role # "" THEN el.role ELSE el.tag,
                                        type |-> "landmark", node |-> n])
                               ELSE st.sections,
                  counter  |-> IF gen THEN st.counter + 1 ELSE st.counter]

RECURSIVE HeadingsLoop(_, _)
HeadingsLoop(st, n) ==
    IF n > Len(st.doc) THEN st ELSE HeadingsLoop(HeadingStep(st, n), n + 1)

RECURSIVE LandmarksLoop(_, _)
LandmarksLoop(st, n) ==
    IF n > Len(st.doc) THEN st ELSE LandmarksLoop(LandmarkStep(st, n), n + 1)

\* the whole pass: the document after it and the sections it returns
\* (field node of a section is the index of its source element, kept for the checks)
parsePageForMapping(doc) ==
    LandmarksLoop(HeadingsLoop([doc |-> doc, sections |-> <<>>, counter |-> 0], 1), 1)

-----------------------------------------------------------------------------
(* navigateToSection and the content script's message listeners *)

\* document.getElementById: the first element in document order with that id, 0 for null
getElementById(doc, id) ==
    LET hits == {n \in 1..Len(doc) : id # "" /\ doc[n].id = id}
    IN  IF hits = {} THEN 0 ELSE CHOOSE n \in hits : \A m \in hits : n <= m

\* navigateToSection without the test for a missing element
navigateToSection_NoNullCheck(doc, sectionId, scrolled) ==
    LET el == getElementById(doc, sectionId)
    IN  [response |-> [ok |-> TRUE], scrolledTo |-> IF el = 0 THEN scrolled ELSE el]

\* navigateToSection inside the listener's try/catch: the response and the scroll target
navigateToSection(doc, sectionId, scrolled) ==
    LET el == getElementById(doc, sectionId)
    IN  IF el = 0
        THEN [response |-> [ok |-> FALSE, error |-> "Section not found: " \o sectionId],
              scrolledTo |-> scrolled]
        ELSE [response |-> [ok |-> TRUE], scrolledTo |-> el]

\* onMessage, command parse_page_for_mapping
ParsePageForMappingCmd ==
    /\ passes < MaxPasses
    /\ LET r == parsePageForMapping(document)
       IN  /\ document' = r.doc
           /\ sections' = r.sections
           /\ response' = [ok |-> TRUE, pageData |-> r.sections]
    /\ request' = [command |-> "parse_page_for_mapping"]
    /\ prevSections' = sections
    /\ passes' = passes + 1
    /\ UNCHANGED <<scrolledTo, viewportVars, timeVars, imageVars, keyVars, pollVars, backgroundVars, dockVars, helperVars, popupVars>>

\* second onMessage listener, command get_page_for_backend
GetPageForBackendCmd ==
    /\ passes < MaxPasses
    /\ LET r == parsePageForMapping(document)
       IN  /\ document' = r.doc
           /\ sections' = r.sections
           /\ response' = [ok |-> TRUE, data |-> r.sections]
    /\ request' = [command |-> "get_page_for_backend"]
    /\ prevSections' = sections
    /\ passes' = passes + 1
    /\ UNCHANGED <<scrolledTo, viewportVars, timeVars, imageVars, keyVars, pollVars, backgroundVars, dockVars, helperVars, popupVars>>

\* ids a navigate_to_section message may carry
NavigationIds == {"a", "zz", GenId("heading", 0)}

\* onMessage, command navigate_to_section
NavigateToSectionCmd ==
    \E sectionId \in NavigationIds :
        LET r == navigateToSection(document, sectionId, scrolledTo)
        IN  /\ request' = [command |-> "navigate_to_section", sectionId |-> sectionId]
            /\ response' = r.response
            /\ scrolledTo' = r.scrolledTo
            /\ UNCHANGED <<document, sections, prevSections, passes,
                           viewportVars, timeVars, imageVars, keyVars, pollVars, backgroundVars, dockVars, helperVars, popupVars>>

-----------------------------------------------------------------------------
(* extractSectionText.  Text nodes are carried by the elements that hold no *)
(* child element; the textContent of an element that holds child elements   *)
(* is the concatenation of its children's textContent.                      *)

Children(doc, n) == {m \in 1..Len(doc) : doc[m].parent = n}

\* the text node of element n
OwnText(doc, n) == IF Children(doc, n) = {} THEN doc[n].textContent ELSE <<>>

\* element.nextElementSibling (0: null)
NextElementSibling(doc, n) ==
    LET later == {m \in Children(doc, doc[n].parent) : m > n}
    IN  IF later = {} THEN 0 ELSE CHOOSE m \in later : \A k \in later : m <= k

\* parseInt(element.tagName.charAt(1)) of a heading element
HeadingLevel(el) ==
    CASE el.tag = "h1" -> 1 [] el.tag = "h2" -> 2 [] el.tag = "h3" -> 3
      [] el.tag = "h4" -> 4 [] el.tag = "h5" -> 5 [] OTHER -> 6

MinTextLength == 2

RECURSIVE FollowingSiblingsText_NoStop(_, _, _, _)
\* FollowingSiblingsText without the break at a heading of the same or a higher level
FollowingSiblingsText_NoStop(doc, headingLevel, currentElement, text) ==
    IF currentElement = 0 THEN text
    ELSE LET elementText == Trim(doc[currentElement].textContent)
         IN  FollowingSiblingsText_NoStop(doc, headingLevel,
                 NextElementSibling(doc, currentElement),
                 IF Len(elementText) > MinTextLength
                 THEN text \o elementText \o <<"\n">> ELSE text)

RECURSIVE FollowingSiblingsText(_, _, _, _)
\* the while loop of the heading branch
FollowingSiblingsText(doc, headingLevel, currentElement, text) ==
    IF currentElement = 0 THEN text
    ELSE IF /\ IsHeading(doc[currentElement])
            /\ HeadingLevel(doc[currentElement]) <= headingLevel THEN text
    ELSE LET elementText == Trim(doc[currentElement].textContent)
         IN  FollowingSiblingsText(doc, headingLevel,
                 NextElementSibling(doc, currentElement),
                 IF Len(elementText) > MinTextLength
                 THEN text \o elementText \o <<"\n">> ELSE text)

RejectedTags == {"script", "style", "nav", "footer", "header", "aside"}
BlockTags == {"p", "div", "h1", "h2", "h3", "h4", "h5", "h6", "li", "br"}

\* element m lies below root (0: document.body) and neither it nor an element
\* between it and root is rejected by the walker's filter
Walked(doc, root, m) ==
    LET up    == Ancestors(doc, m)
        below == IF root = 0 THEN 1..Len(up)
                 ELSE {i \in 1..Len(up) : \E j \in i..Len(up) : up[j] = root /\ i < j}
    IN  /\ root = 0 \/ \E j \in 1..Len(up) : up[j] = root
        /\ doc[m].tag \notin RejectedTags
        /\ \A i \in below : doc[up[i]].tag \notin RejectedTags

\* what the walker loop appends for a text node
TextNodePart(t) ==
    IF Len(Trim(t)) > MinTextLength THEN Trim(t) \o <<" ">> ELSE <<>>

RECURSIVE WalkerText(_, _, _)
\* the TreeWalker loop over the elements from index m on
WalkerText(doc, root, m) ==
    IF m > Len(doc) THEN <<>>
    ELSE (IF Walked(doc, root, m)
          THEN (IF doc[m].tag \in BlockTags THEN <<"\n">> ELSE <<>>)
               \o TextNodePart(OwnText(doc, m))
          ELSE <<>>) \o WalkerText(doc, root, m + 1)

RECURSIVE CollapseWhitespace(_)
\* .replace(/\s+/g, ' ')
CollapseWhitespace(s) ==
    IF s = <<>> THEN <<>>
    ELSE IF IsSpace(s[1])
         THEN <<" ">> \o CollapseWhitespace(TrimStart(s))
         ELSE <<s[1]>> \o CollapseWhitespace(Tail(s))

\* length of the longest prefix of s matching \n\s*\n (0: no match at the start)
BlankLinesPrefix(s) ==
    LET run  == Len(s) - Len(TrimStart(s))
        ends == {i \in 2..run : s[i] = "\n"}
    IN  IF s = <<>> \/ s[1] # "\n" \/ ends = {} THEN 0
        ELSE CHOOSE i \in ends : \A j \in ends : j <= i

RECURSIVE CollapseBlankLines(_)
\* .replace(/\n\s*\n/g, '\n')
CollapseBlankLines(s) ==
    IF s = <<>> THEN <<>>
    ELSE IF BlankLinesPrefix(s) > 0
         THEN <<"\n">> \o CollapseBlankLines(SubSeq(s, BlankLinesPrefix(s) + 1, Len(s)))
         ELSE <<s[1]>> \o CollapseBlankLines(Tail(s))

\* extractSectionText(element); element 0 is document.body
extractSectionText(doc, element) ==
    LET text == IF element # 0 /\ IsHeading(doc[element])
                THEN FollowingSiblingsText(doc, HeadingLevel(doc[element]),
                                           NextElementSibling(doc, element), <<>>)
                ELSE (IF element = 0 THEN <<>> ELSE TextNodePart(OwnText(doc, element)))
                     \o WalkerText(doc, element, 1)
    IN  Trim(CollapseBlankLines(CollapseWhitespace(text)))

-----------------------------------------------------------------------------
(* extractCurrentSectionContent: the current-section locator *)

NearMargin == 200
CenterMargin == 100

\* heading.getBoundingClientRect().top at scroll position sY
RectTop(el, sY) == el.top - sY

Abs(x) == IF x < 0 THEN 0 - x ELSE x

\* NearestStep with the distances compared by <= : the last of a tie wins
NearestStep_LastOfTie(doc, sY, vh, st, n) ==
    LET headingTop == RectTop(doc[n], sY) + sY
        distance   == Abs(headingTop - sY)
    IN  IF ~IsHeading(doc[n]) THEN st
        ELSE IF headingTop < sY - NearMargin THEN st
        ELSE IF headingTop > sY + vh + NearMargin THEN st
        ELSE IF st.bestHeading = 0 \/ distance <= st.bestDistance
             THEN [bestHeading |-> n, bestDistance |-> distance]
             ELSE st

\* one iteration of the nearest-heading loop; st = [bestHeading, bestDistance],
\* bestHeading = 0 standing for null and bestDistance = Infinity
NearestStep(doc, sY, vh, st, n) ==
    LET headingTop == RectTop(doc[n], sY) + sY
        distance   == Abs(headingTop - sY)
    IN  IF ~IsHeading(doc[n]) THEN st
        ELSE IF headingTop < sY - NearMargin THEN st
        ELSE IF headingTop > sY + vh + NearMargin THEN st
        ELSE IF st.bestHeading = 0 \/ distance < st.bestDistance
             THEN [bestHeading |-> n, bestDistance |-> distance]
             ELSE st

RECURSIVE NearestLoop(_, _, _, _, _)
NearestLoop(doc, sY, vh, st, n) ==
    IF n > Len(doc) THEN st
    ELSE NearestLoop(doc, sY, vh, NearestStep(doc, sY, vh, st, n), n + 1)

\* CenterHeading reaching 400 above the viewport
CenterHeading_WideMargin(doc, sY, vh) ==
    LET hits == {n \in 1..Len(doc) :
                    /\ IsHeading(doc[n])
                    /\ 2 * (RectTop(doc[n], sY) + sY) <= 2 * sY + vh
                    /\ RectTop(doc[n], sY) + sY > sY - 4 * CenterMargin}
    IN  IF hits = {} THEN 0 ELSE CHOOSE n \in hits : \A m \in hits : n <= m

\* the center-based scan: headingTop <= centerY && headingTop > scrollY - 100,
\* with centerY = scrollY + viewportHeight / 2 (compared doubled, to stay integral)
CenterHeading(doc, sY, vh) ==
    LET hits == {n \in 1..Len(doc) :
                    /\ IsHeading(doc[n])
                    /\ 2 * (RectTop(doc[n], sY) + sY) <= 2 * sY + vh
                    /\ RectTop(doc[n], sY) + sY > sY - CenterMargin}
    IN  IF hits = {} THEN 0 ELSE CHOOSE n \in hits : \A m \in hits : n <= m

\* MainContent taking the last matching element instead of the first
MainContent_LastMatch(doc) ==
    LET hits == {n \in 1..Len(doc) :
                    \/ doc[n].tag \in {"main", "article"}
                    \/ doc[n].className \in {"content", "main-content"}
                    \/ doc[n].id = "content"}
    IN  IF hits = {} THEN 0 ELSE CHOOSE n \in hits : \A m \in hits : m <= n

\* document.querySelector('main, article, .content, #content, .main-content')
MainContent(doc) ==
    LET hits == {n \in 1..Len(doc) :
                    \/ doc[n].tag \in {"main", "article"}
                    \/ doc[n].className \in {"content", "main-content"}
                    \/ doc[n].id = "content"}
    IN  IF hits = {} THEN 0 ELSE CHOOSE n \in hits : \A m \in hits : n <= m

TitleMainContent == <<"M","a","i","n"," ","C","o","n","t","e","n","t">>
TitlePageContent == <<"P","a","g","e"," ","C","o","n","t","e","n","t">>

\* the section the locator settles on: node is the element's index (0 for
\* document.body), step names the stage of the cascade that decided
extractCurrentSectionContent(doc, sY, vh) ==
    LET best   == NearestLoop(doc, sY, vh, [bestHeading |-> 0, bestDistance |-> 0], 1).bestHeading
        center == CenterHeading(doc, sY, vh)
        main   == MainContent(doc)
        pick   == IF best # 0 THEN [node |-> best, step |-> "nearest"]
                  ELSE IF center # 0 THEN [node |-> center, step |-> "center"]
                  ELSE IF main # 0 THEN [node |-> main, step |-> "main"]
                  ELSE [node |-> 0, step |-> "body"]
    IN  [sectionTitle   |-> IF pick.step \in {"nearest", "center"}
                            THEN Trim(doc[pick.node].textContent)
                            ELSE IF pick.step = "main" THEN TitleMainContent
                            ELSE TitlePageContent,
         sectionElement |-> IF pick.node = 0 THEN "body" ELSE doc[pick.node].tag,
         content        |-> extractSectionText(doc, pick.node),
         wordCount      |-> Len(Split(extractSectionText(doc, pick.node), " ")),
         node           |-> pick.node,
         step           |-> pick.step,
         scrollPosition |-> sY,
         viewportCenterDoubled |-> 2 * sY + vh]

\* ExtractCurrentSectionCmd running the mapping pass on its way, ids written
ExtractCurrentSectionCmd_AssignsIds ==
    /\ request' = [command |-> "extract_current_section"]
    /\ response' = [ok |-> TRUE,
                    sectionContent |-> extractCurrentSectionContent(document, scrollY,
                                                                    viewportHeight)]
    /\ document' = parsePageForMapping(document).doc
    /\ UNCHANGED <<sections, prevSections, passes, scrolledTo,
                   viewportVars, timeVars, imageVars, keyVars, pollVars, backgroundVars, dockVars, helperVars, popupVars>>

\* onMessage, command extract_current_section
ExtractCurrentSectionCmd ==
    /\ request' = [command |-> "extract_current_section"]
    /\ response' = [ok |-> TRUE,
                    sectionContent |-> extractCurrentSectionContent(document, scrollY,
                                                                    viewportHeight)]
    /\ UNCHANGED <<document, sections, prevSections, passes, scrolledTo,
                   viewportVars, timeVars, imageVars, keyVars, pollVars, backgroundVars, dockVars, helperVars, popupVars>>

\* scroll positions and viewport heights of the window
ScrollPositions == {0, 500, 2300}
ViewportHeights == {0, 800}

\* the user scrolls the page
ScrollWindow ==
    /\ scrollY' \in ScrollPositions \ {scrollY}
    /\ UNCHANGED <<contentVars, viewportHeight, timeVars, imageVars, keyVars, pollVars, backgroundVars, dockVars, helperVars, popupVars>>

-----------------------------------------------------------------------------
(* Numbers *)

\* Numbers are IEEE 754 doubles: a quotient and a product are each rounded to
\* Precision significant binary digits, ties to the even neighbour. A double
\* is kept as its significand digits (most significant first, no leading
\* zero) and the count of those digits that lie after the binary point.
Precision == 53

\* digits computed beyond Precision before a quotient is rounded
GuardDigits == 20

RECURSIVE BitsOfNat(_)
BitsOfNat(n) == IF n = 0 THEN <<>> ELSE Append(BitsOfNat(n \div 2), n % 2)

RECURSIVE NatOfBits(_)
NatOfBits(bits) ==
    IF bits = <<>> THEN 0
    ELSE 2 * NatOfBits(SubSeq(bits, 1, Len(bits) - 1)) + bits[Len(bits)]

\* the digits from the first 1 on
StripZeros(bits) ==
    LET ones == {i \in 1..Len(bits) : bits[i] = 1}
    IN  IF ones = {} THEN <<>>
        ELSE SubSeq(bits, CHOOSE i \in ones : \A j \in ones : i <= j, Len(bits))

\* 2^n modulo d, by repeated squaring
RECURSIVE Pow2Mod(_, _)
Pow2Mod(n, d) ==
    IF n = 0 THEN 1 % d
    ELSE LET h == Pow2Mod(n \div 2, d)
         IN  (((h * h) % d) * (IF n % 2 = 1 THEN 2 ELSE 1)) % d

\* the first n digits of r / d after the binary point (r < d) and the remainder:
\* digit i is the integer part of twice the remainder left after i - 1 digits
FractionBits(r, d, n) ==
    [bits |-> [i \in 1..n |-> (2 * ((r * Pow2Mod(i - 1, d)) % d)) \div d],
     rem  |-> (r * Pow2Mod(n, d)) % d]

\* digits + 1
Increment(bits) ==
    LET zeros == {i \in 1..Len(bits) : bits[i] = 0}
    IN  IF zeros = {} THEN <<1>> \o [i \in 1..Len(bits) |-> 0]
        ELSE LET z == CHOOSE i \in zeros : \A j \in zeros : j <= i
             IN  [i \in 1..Len(bits) |-> IF i < z THEN bits[i] ELSE IF i = z THEN 1 ELSE 0]

\* long multiplication works on groups of LimbBits digits
LimbBits == 16

LimbBase == 65536

\* the digits cut into limbs, most significant first
Limbs(bits) ==
    LET n      == (Len(bits) + LimbBits - 1) \div LimbBits
        padded == [i \in 1..(n * LimbBits - Len(bits)) |-> 0] \o bits
    IN  [j \in 1..n |-> NatOfBits(SubSeq(padded, LimbBits * (j - 1) + 1, LimbBits * j))]

\* the LimbBits digits of a limb
LimbDigits(x) ==
    LET d == BitsOfNat(x)
    IN  [i \in 1..(LimbBits - Len(d)) |-> 0] \o d

\* limbs * t + carry, as digits
RECURSIVE TimesLimbs(_, _, _)
TimesLimbs(limbs, t, carry) ==
    IF limbs = <<>> THEN BitsOfNat(carry)
    ELSE LET v == limbs[Len(limbs)] * t + carry
         IN  TimesLimbs(SubSeq(limbs, 1, Len(limbs) - 1), t, v \div LimbBase)
                \o LimbDigits(v % LimbBase)

\* digits * t, in binary
TimesNat(bits, t) == TimesLimbs(Limbs(bits), t, 0)

\* round to nearest, ties to even; inexact: digits below the given ones are not all 0
RoundToDouble(digits, scale, inexact) ==
    LET sig   == StripZeros(digits)
        extra == Len(sig) - Precision
    IN  IF extra <= 0 THEN [bits |-> sig, scale |-> scale]
        ELSE LET kept  == SubSeq(sig, 1, Precision)
                 below == inexact \/ \E i \in (Precision + 2)..Len(sig) : sig[i] = 1
                 up    == sig[Precision + 1] = 1 /\ (below \/ kept[Precision] = 1)
                 r     == IF up THEN Increment(kept) ELSE kept
             IN  IF Len(r) > Precision
                 THEN [bits |-> SubSeq(r, 1, Precision), scale |-> scale - extra - 1]
                 ELSE [bits |-> r, scale |-> scale - extra]

\* a / b for whole numbers a >= 0 and 0 < b < 2^15
DoubleDivide(a, b) ==
    LET f == FractionBits(a % b, b, Precision + GuardDigits)
    IN  RoundToDouble(BitsOfNat(a \div b) \o f.bits, Precision + GuardDigits, f.rem # 0)

\* t * x for a whole number t >= 0 and a double x
DoubleMultiply(t, x) == RoundToDouble(TimesNat(x.bits, t), x.scale, FALSE)

\* Math.floor of a double x, 0 <= x < 2^31
MathFloor(x) ==
    IF Len(x.bits) <= x.scale THEN 0
    ELSE NatOfBits(SubSeq(x.bits, 1, Len(x.bits) - x.scale))

\* Math.round of a double x, 0 <= x < 2^31: the nearest whole number, halves upwards
MathRound(x) ==
    LET first == Len(x.bits) - x.scale + 1
    IN  MathFloor(x) + (IF first >= 1 /\ first <= Len(x.bits) THEN x.bits[first] ELSE 0)

-----------------------------------------------------------------------------
(* extractViewportImages.  An image is a record: left, top (the offsets of  *)
(* its box in the page), width, height (its rendered size) and src.         *)

MinImageSize == 30
MinVisibility == 10

Max(a, b) == IF a > b THEN a ELSE b

\* img.getBoundingClientRect() at scroll position (sX, sY)
BoundingClientRect(img, sX, sY) ==
    [left |-> img.left - sX, top |-> img.top - sY,
     width |-> img.width, height |-> img.height]

IsInViewport(rect, vw, vh) ==
    /\ rect.left < vw
    /\ rect.top < vh
    /\ rect.left + rect.width > 0
    /\ rect.top + rect.height > 0

\* VisibleArea without the clamping of the right and bottom edges to the viewport
VisibleArea_Unclamped(rect, vw, vh) ==
    LET visibleLeft   == Max(0, rect.left)
        visibleTop    == Max(0, rect.top)
        visibleRight  == rect.left + rect.width
        visibleBottom == rect.top + rect.height
    IN  (visibleRight - visibleLeft) * (visibleBottom - visibleTop)

VisibleArea(rect, vw, vh) ==
    LET visibleLeft   == Max(0, rect.left)
        visibleTop    == Max(0, rect.top)
        visibleRight  == Min(vw, rect.left + rect.width)
        visibleBottom == Min(vh, rect.top + rect.height)
    IN  (visibleRight - visibleLeft) * (visibleBottom - visibleTop)

VisibilityPercentage(rect, vw, vh) ==
    LET totalArea == rect.width * rect.height
    IN  IF totalArea > 0
        THEN MathRound(DoubleMultiply(100, DoubleDivide(VisibleArea(rect, vw, vh), totalArea)))
        ELSE 0

SrcDataImage == <<"d","a","t","a",":","i","m","a","g","e">>
SrcPixel == <<"p","i","x","e","l">>

\* !src || src.includes('data:image') || src.includes('pixel')
NoMeaningfulSrc(src) ==
    src = <<>> \/ Includes(src, SrcDataImage) \/ Includes(src, SrcPixel)

\* TooSmallOrBarelyVisible without the test of the height
TooSmallOrBarelyVisible_WidthOnly(rect, visibilityPercentage) ==
    rect.width < MinImageSize \/ visibilityPercentage < MinVisibility

\* imgWidth < 30 || imgHeight < 30 || visibilityPercentage < 10
TooSmallOrBarelyVisible(rect, visibilityPercentage) ==
    \/ rect.width < MinImageSize
    \/ rect.height < MinImageSize
    \/ visibilityPercentage < MinVisibility

\* the forEach callback on image number index: the list with what it pushes
ImageStep(viewportImages, images, index, vw, vh, sX, sY) ==
    LET rect == BoundingClientRect(images[index], sX, sY)
        visibilityPercentage == VisibilityPercentage(rect, vw, vh)
    IN  IF ~IsInViewport(rect, vw, vh) THEN viewportImages
        ELSE IF TooSmallOrBarelyVisible(rect, visibilityPercentage) THEN viewportImages
        ELSE IF NoMeaningfulSrc(images[index].src) THEN viewportImages
        ELSE Append(viewportImages,
                    [src |-> images[index].src,
                     width |-> rect.width, height |-> rect.height,
                     viewportX |-> rect.left, viewportY |-> rect.top,
                     isVisible |-> TRUE,
                     visibilityPercentage |-> visibilityPercentage,
                     index |-> index])

RECURSIVE ImagesLoop(_, _, _, _, _, _, _)
ImagesLoop(viewportImages, images, index, vw, vh, sX, sY) ==
    IF index > Len(images) THEN viewportImages
    ELSE ImagesLoop(ImageStep(viewportImages, images, index, vw, vh, sX, sY),
                    images, index + 1, vw, vh, sX, sY)

\* extractViewportImages(); index is the image's position in the page's list
extractViewportImages(images, vw, vh, sX, sY) ==
    [images |-> ImagesLoop(<<>>, images, 1, vw, vh, sX, sY),
     viewportWidth |-> vw,
     viewportHeight |-> vh,
     scrollPosition |-> [x |-> sX, y |-> sY]]

\* onMessage, command extract_viewport_images (the page is not scrolled sideways)
ExtractViewportImagesCmd ==
    /\ request' = [command |-> "extract_viewport_images"]
    /\ response' = [ok |-> TRUE] @@
                   extractViewportImages(pageImages, viewportWidth, viewportHeight,
                                         0, scrollY)
    /\ UNCHANGED <<document, sections, prevSections, passes, scrolledTo,
                   viewportVars, timeVars, imageVars, keyVars, pollVars, backgroundVars, dockVars, helperVars, popupVars>>

-----------------------------------------------------------------------------
(* parseTimeToSeconds.  A JavaScript number is a record: NaN, or Num(v). *)

NaN == [nan |-> TRUE]
Num(v) == [nan |-> FALSE, v |-> v]

JsAdd(a, b) == IF a.nan \/ b.nan THEN NaN ELSE Num(a.v + b.v)
JsMul(a, b) == IF a.nan \/ b.nan THEN NaN ELSE Num(a.v * b.v)
\* a >= b and a < b are false as soon as one side is NaN
JsGe(a, b) == ~a.nan /\ ~b.nan /\ a.v >= b.v
JsLt(a, b) == ~a.nan /\ ~b.nan /\ a.v < b.v

Digits == <<"0","1","2","3","4","5","6","7","8","9">>
IsDigit(c) == \E i \in 1..Len(Digits) : Digits[i] = c
DigitValue(c) == (CHOOSE i \in 1..Len(Digits) : Digits[i] = c) - 1

RECURSIVE DigitPrefix(_)
\* the leading digits of s
DigitPrefix(s) ==
    IF s # <<>> /\ IsDigit(s[1]) THEN <<s[1]>> \o DigitPrefix(SubSeq(s, 2, Len(s))) ELSE <<>>

RECURSIVE DecimalValue(_)
DecimalValue(ds) ==
    IF ds = <<>> THEN 0
    ELSE 10 * DecimalValue(SubSeq(ds, 1, Len(ds) - 1)) + DigitValue(ds[Len(ds)])

\* parseInt(p, 10): leading blanks, an optional sign, then the leading digits;
\* NaN when there is no digit
ParseInt(p) ==
    LET s      == TrimStart(p)
        signed == s # <<>> /\ s[1] \in {"-", "+"}
        body   == IF signed THEN SubSeq(s, 2, Len(s)) ELSE s
        ds     == DigitPrefix(body)
    IN  IF ds = <<>> THEN NaN
        ELSE IF signed /\ s[1] = "-" THEN Num(0 - DecimalValue(ds))
        ELSE Num(DecimalValue(ds))

parseTimeToSeconds(ts) ==
    IF ts = <<>> THEN Num(0)
    ELSE LET fields == Split(ts, ":")
             parts  == [i \in 1..Len(fields) |-> ParseInt(fields[i])]
         IN  IF Len(parts) = 2
             THEN JsAdd(JsMul(parts[1], Num(60)), parts[2])
             ELSE IF Len(parts) = 3
             THEN JsAdd(JsAdd(JsMul(parts[1], Num(3600)), JsMul(parts[2], Num(60))), parts[3])
             ELSE Num(0)

NotCalled == [called |-> FALSE]

\* a call of parseTimeToSeconds on the string at hand
ParseTimeCall ==
    /\ parsedTime = NotCalled
    /\ parsedTime' = parseTimeToSeconds(timeString)
    /\ UNCHANGED <<contentVars, viewportVars, timeString, imageVars, keyVars, pollVars, backgroundVars, dockVars, helperVars, popupVars>>

-----------------------------------------------------------------------------
(* The popup's immersive-summary synchronizer *)

NoPageStructure == [present |-> FALSE]

\* a section id that is null
NullId == ""

\* Array.prototype.find: index of the first position whose flag is set, 0 when none
FindFirst(flags) ==
    LET hits == {i \in 1..Len(flags) : flags[i]}
    IN  IF hits = {} THEN 0 ELSE CHOOSE i \in hits : \A j \in hits : i <= j

\* findMatchingSectionId trying the partial match before the exact match
findMatchingSectionId_PartialFirst(psd, name0) ==
    IF ~psd.present THEN NullId
    ELSE LET name == ToLowerCase(name0)
             secs == psd.sections
             exactMatch ==
                 FindFirst([i \in 1..Len(secs) |-> ToLowerCase(secs[i].label) = name])
             partialMatch ==
                 FindFirst([i \in 1..Len(secs) |->
                               \/ Includes(ToLowerCase(secs[i].label), name)
                               \/ Includes(name, ToLowerCase(secs[i].label))])
         IN  IF partialMatch # 0 THEN secs[partialMatch].id
             ELSE IF exactMatch # 0 THEN secs[exactMatch].id
             ELSE NullId

findMatchingSectionId(psd, name0) ==
    IF ~psd.present THEN NullId
    ELSE LET name == ToLowerCase(name0)
             secs == psd.sections
             exactMatch ==
                 FindFirst([i \in 1..Len(secs) |-> ToLowerCase(secs[i].label) = name])
             partialMatch ==
                 FindFirst([i \in 1..Len(secs) |->
                               \/ Includes(ToLowerCase(secs[i].label), name)
                               \/ Includes(name, ToLowerCase(secs[i].label))])
         IN  IF exactMatch # 0 THEN secs[exactMatch].id
             ELSE IF partialMatch # 0 THEN secs[partialMatch].id
             ELSE NullId

\* a call of findMatchingSectionId(sectionName)
FindMatchingSectionIdCall ==
    /\ matchedId' = [called |-> TRUE,
                     id |-> findMatchingSectionId(pageStructureData, sectionName)]
    /\ UNCHANGED <<contentVars, viewportVars, timeVars, imageVars, keyVars, pollVars, backgroundVars, dockVars, popupVars,
                   textTarget, sectionText, sectionName>>

\* transcriptData.playback_time.map(...)
ParseSegments(psd, items) ==
    [i \in 1..Len(items) |->
        [name      |-> items[i].name,
         time      |-> parseTimeToSeconds(items[i].playback_time),
         sectionId |-> findMatchingSectionId(psd, items[i].name)]]

\* the comparator (a, b) => a.time - b.time says that a must come after b
ComesAfter(a, b) == ~a.time.nan /\ ~b.time.nan /\ a.time.v > b.time.v

\* the arrangements sort((a, b) => a.time - b.time) can leave: the stable
\* ascending order when every time is a number; with a NaN time the comparator
\* is not consistent and the order is implementation-defined: every
\* arrangement in which no neighbour must come after the next is possible
SortedArrangements(segs) ==
    LET n     == Len(segs)
        perms == {p \in [1..n -> 1..n] : \A i, j \in 1..n : i # j => p[i] # p[j]}
        allNumbers == \A i \in 1..n : ~segs[i].time.nan
        Stable(p) == \A i, j \in 1..n :
                        i < j => \/ segs[p[i]].time.v < segs[p[j]].time.v
                                 \/ segs[p[i]].time.v = segs[p[j]].time.v /\ p[i] < p[j]
        Settled(p) == \A i \in 1..(n - 1) : ~ComesAfter(segs[p[i]], segs[p[i + 1]])
    IN  {[i \in 1..n |-> segs[p[i]]] :
            p \in {q \in perms : IF allNumbers THEN Stable(q) ELSE Settled(q)}}

RECURSIVE ScanSegments(_, _, _, _)
\* the for loop of handleAudioTimeUpdate from index i (0-based): the index of
\* the first segment the clock is in that is not the cursor, -1 when none
ScanSegments(segs, cursor, t, i) ==
    IF i >= Len(segs) THEN 0 - 1
    ELSE LET section       == segs[i + 1]
             hasNext       == i + 1 < Len(segs)
             inThisSection == /\ JsGe(Num(t), section.time)
                              /\ (~hasNext \/ JsLt(Num(t), segs[i + 2].time))
         IN  IF inThisSection /\ i # cursor THEN i
             ELSE ScanSegments(segs, cursor, t, i + 1)

\* handleAudioTimeUpdate without the test that the segment has a sectionId
handleAudioTimeUpdate_NoIdCheck(audio, segs, cursor) ==
    IF ~audio.present \/ Len(segs) = 0
    THEN [cursor |-> cursor, navs |-> <<>>]
    ELSE LET hit == ScanSegments(segs, cursor, audio.currentTime, cursor)
         IN  IF hit < 0 THEN [cursor |-> cursor, navs |-> <<>>]
             ELSE [cursor |-> hit, navs |-> <<segs[hit + 1].sectionId>>]

\* handleAudioTimeUpdate with no segment designated before the tick
handleAudioTimeUpdate_NoneDesignated(audio, segs, cursor) ==
    IF ~audio.present \/ Len(segs) = 0
    THEN [cursor |-> cursor, navs |-> <<>>]
    ELSE LET hit == ScanSegments(segs, IF cursor = 0 THEN 0 - 1 ELSE cursor,
                                 audio.currentTime, cursor)
         IN  IF hit < 0 THEN [cursor |-> cursor, navs |-> <<>>]
             ELSE [cursor |-> hit,
                   navs   |-> IF segs[hit + 1].sectionId # NullId
                              THEN <<segs[hit + 1].sectionId>> ELSE <<>>]

\* handleAudioTimeUpdate: the new cursor and the navigations it requests
handleAudioTimeUpdate(audio, segs, cursor) ==
    IF ~audio.present \/ Len(segs) = 0
    THEN [cursor |-> cursor, navs |-> <<>>]
    ELSE LET hit == ScanSegments(segs, cursor, audio.currentTime, cursor)
         IN  IF hit < 0 THEN [cursor |-> cursor, navs |-> <<>>]
             ELSE [cursor |-> hit,
                   navs   |-> IF segs[hit + 1].sectionId # NullId
                              THEN <<segs[hit + 1].sectionId>> ELSE <<>>]

\* the playback clock: the positions at which timeupdate is delivered
ClockTicks == {0, 30, 89, 90, 95, 120}
AudioDuration == CHOOSE d \in ClockTicks : \A t \in ClockTicks : d >= t

\* handleCreateImmersiveSummary: the job is created and polling starts
CreateImmersiveSummary ==
    /\ ~immersiveSummaryAudio.present
    /\ ~pollingInterval
    /\ pollingInterval' = TRUE
    /\ lastEvent' = "create"
    /\ navRequests' = <<>>
    /\ UNCHANGED <<contentVars, viewportVars, timeVars, imageVars, keyVars, pollVars, backgroundVars, dockVars, helperVars, pageStructureData,
                   immersiveSummaryAudio, immersivePlaybackTimes, currentSectionIndex,
                   timeupdateAttached>>

\* transcript items the backend may send
NameIntro == <<"I","n","t","r","o">>
NameResults == <<"R","e","s","u","l","t","s">>
NameNope == <<"N","o","p","e">>
Time0000 == <<"0","0",":","0","0">>
Time0030 == <<"0","0",":","3","0">>
Time0130 == <<"0","1",":","3","0">>
TimeGarbage == <<"g","a","r","b","a","g","e">>
TimeLetters == <<"a",":","b">>

SegmentItems ==
    { [name |-> NameIntro,   playback_time |-> Time0000],
      [name |-> NameResults, playback_time |-> Time0130],
      [name |-> NameNope,    playback_time |-> Time0030],
      [name |-> NameResults, playback_time |-> TimeGarbage],
      [name |-> NameNope,    playback_time |-> TimeLetters] }

TranscriptPayloads == UNION {[1..n -> SegmentItems] : n \in 0..MaxSegments}

\* the polling callback on a successful response: the audio is stored and the
\* transcript, when it can be fetched, is parsed, resolved and sorted
PollSuccess ==
    /\ pollingInterval
    /\ pollingInterval' = FALSE
    /\ immersiveSummaryAudio' =
          [present |-> TRUE, paused |-> TRUE, ended |-> FALSE, currentTime |-> 0]
    /\ \/ \E items \in TranscriptPayloads :
             immersivePlaybackTimes' \in
                 SortedArrangements(ParseSegments(pageStructureData, items))
       \/ UNCHANGED immersivePlaybackTimes
    /\ lastEvent' = "poll"
    /\ navRequests' = <<>>
    /\ UNCHANGED <<contentVars, viewportVars, timeVars, imageVars, keyVars, pollVars, backgroundVars, dockVars, helperVars, pageStructureData,
                   currentSectionIndex, timeupdateAttached>>

\* CursorOnPlay resetting the cursor on every play
CursorOnPlay_AlwaysReset(audio, cursor) == 0

\* playImmersiveSummary on a paused audio: the cursor after the click
CursorOnPlay(audio, cursor) == IF audio.currentTime = 0 THEN 0 ELSE cursor

\* playImmersiveSummary: the click on the play / pause button
PlayImmersiveSummary ==
    /\ immersiveSummaryAudio.present
    /\ IF immersiveSummaryAudio.paused
       THEN /\ currentSectionIndex' = CursorOnPlay(immersiveSummaryAudio, currentSectionIndex)
            /\ timeupdateAttached' = TRUE
            \* play() on an audio that has ended starts again from the beginning
            /\ immersiveSummaryAudio' =
                  [immersiveSummaryAudio EXCEPT
                      !.paused = FALSE, !.ended = FALSE,
                      !.currentTime = IF immersiveSummaryAudio.ended THEN 0 ELSE @]
            /\ lastEvent' = "play"
       ELSE /\ immersiveSummaryAudio' = [immersiveSummaryAudio EXCEPT !.paused = TRUE]
            /\ lastEvent' = "pause"
            /\ UNCHANGED <<currentSectionIndex, timeupdateAttached>>
    /\ navRequests' = <<>>
    /\ UNCHANGED <<contentVars, viewportVars, timeVars, imageVars, keyVars, pollVars, backgroundVars, dockVars, helperVars, pageStructureData,
                   pollingInterval, immersivePlaybackTimes>>

\* the playback clock moves on and the audio delivers timeupdate
AudioTimeUpdate ==
    /\ immersiveSummaryAudio.present
    /\ ~immersiveSummaryAudio.paused
    /\ \E t \in ClockTicks :
          /\ t >= immersiveSummaryAudio.currentTime
          /\ immersiveSummaryAudio' = [immersiveSummaryAudio EXCEPT !.currentTime = t]
    /\ LET r == IF timeupdateAttached
                THEN handleAudioTimeUpdate(immersiveSummaryAudio', immersivePlaybackTimes,
                                           currentSectionIndex)
                ELSE [cursor |-> currentSectionIndex, navs |-> <<>>]
       IN  /\ currentSectionIndex' = r.cursor
           /\ navRequests' = r.navs
    /\ lastEvent' = "timeupdate"
    /\ UNCHANGED <<contentVars, viewportVars, timeVars, imageVars, keyVars, pollVars, backgroundVars, dockVars, helperVars, pageStructureData,
                   pollingInterval, immersivePlaybackTimes, timeupdateAttached>>

\* the audio reaches its end: it pauses and the onended handler runs
AudioEnded ==
    /\ immersiveSummaryAudio.present
    /\ ~immersiveSummaryAudio.paused
    /\ immersiveSummaryAudio.currentTime = AudioDuration
    /\ immersiveSummaryAudio' = [immersiveSummaryAudio EXCEPT !.paused = TRUE, !.ended = TRUE]
    /\ timeupdateAttached' = FALSE
    /\ currentSectionIndex' = 0
    /\ lastEvent' = "ended"
    /\ navRequests' = <<>>
    /\ UNCHANGED <<contentVars, viewportVars, timeVars, imageVars, keyVars, pollVars, backgroundVars, dockVars, helperVars, pageStructureData,
                   pollingInterval, immersivePlaybackTimes>>

\* NavigateFromPopup with a failed navigation detaching the synchronizer
NavigateFromPopup_FailureDetaches ==
    /\ navRequests # <<>>
    /\ LET r == navigateToSection(document, navRequests[1], scrolledTo)
       IN  /\ request' = [command |-> "navigate_to_section", sectionId |-> navRequests[1]]
           /\ response' = r.response
           /\ scrolledTo' = r.scrolledTo
           /\ timeupdateAttached' = (timeupdateAttached /\ r.response.ok)
    /\ UNCHANGED <<document, sections, prevSections, passes,
                   viewportVars, timeVars, imageVars, keyVars, pollVars, backgroundVars, dockVars, helperVars,
                   pageStructureData, pollingInterval, immersiveSummaryAudio,
                   immersivePlaybackTimes, currentSectionIndex, navRequests, lastEvent>>

\* the navigate_to_section message sent by the popup's navigateToSection for
\* the latest request of the synchronizer reaches the content script
NavigateFromPopup ==
    /\ navRequests # <<>>
    /\ LET r == navigateToSection(document, navRequests[1], scrolledTo)
       IN  /\ request' = [command |-> "navigate_to_section", sectionId |-> navRequests[1]]
           /\ response' = r.response
           /\ scrolledTo' = r.scrolledTo
    /\ UNCHANGED <<document, sections, prevSections, passes,
                   viewportVars, timeVars, imageVars, keyVars, pollVars, backgroundVars, dockVars, helperVars, popupVars>>

\* the beforeunload and unload listeners of the popup window
PopupUnload ==
    /\ lastEvent # "unload"
    /\ pollingInterval' = FALSE
    /\ immersiveSummaryAudio' =
          IF immersiveSummaryAudio.present
          THEN [immersiveSummaryAudio EXCEPT !.paused = TRUE]
          ELSE immersiveSummaryAudio
    /\ timeupdateAttached' = (timeupdateAttached /\ ~immersiveSummaryAudio.present)
    /\ lastEvent' = "unload"
    /\ navRequests' = <<>>
    /\ UNCHANGED <<contentVars, viewportVars, timeVars, imageVars, keyVars, pollVars, backgroundVars, dockVars, helperVars,
                   pageStructureData, immersivePlaybackTimes, currentSectionIndex>>

-----------------------------------------------------------------------------
(* The immersive summary dock of the content script.  An Audio element is a *)
(* record: paused, currentTime, timeupdate (updateProgress is registered as *)
(* its timeupdate listener), pending (a timeupdate event is queued for it). *)
(* Times are whole seconds; every audio lasts DockDuration seconds.         *)

MaxAudios == 1

\* most docks created on one page
MaxDocks == 3

DockDuration == 11

\* transcript.split(/\s+/).filter(w => w.length > 0)
RECURSIVE TranscriptWords(_)
TranscriptWords(transcript) ==
    LET rest == TrimStart(transcript)
        gaps == {i \in 1..Len(rest) : IsSpace(rest[i])}
        stop == IF gaps = {} THEN Len(rest) + 1
                ELSE CHOOSE i \in gaps : \A j \in gaps : i <= j
    IN  IF rest = <<>> THEN <<>>
        ELSE <<SubSeq(rest, 1, stop - 1)>> \o TranscriptWords(SubSeq(rest, stop, Len(rest)))

\* new Audio(request.audioUrl) with updateProgress added as timeupdate listener
NewDockAudio == [paused |-> TRUE, currentTime |-> 0, timeupdate |-> TRUE, pending |-> FALSE]

\* wordsPerSecond = totalWords / duration; Math.floor(currentTime * wordsPerSecond)
CurrentWordIndex(currentTime, totalWords, duration) ==
    MathFloor(DoubleMultiply(currentTime, DoubleDivide(totalWords, duration)))

\* updateTranscriptHighlight with the active word marked as spoken as well
updateTranscriptHighlight_ActiveIsSpoken(audio, words, segments) ==
    IF audio = 0 \/ Len(segments) = 0 THEN words
    ELSE LET currentWordIndex ==
                 CurrentWordIndex(audioElements[audio].currentTime, Len(segments), DockDuration)
         IN  [i \in 1..Len(words) |->
                 IF i - 1 <= currentWordIndex THEN "spoken" ELSE ""]

\* updateTranscriptHighlight(): the classes of the word spans afterwards
updateTranscriptHighlight(audio, words, segments) ==
    IF audio = 0 \/ Len(segments) = 0 THEN words
    ELSE LET currentWordIndex ==
                 CurrentWordIndex(audioElements[audio].currentTime, Len(segments), DockDuration)
         IN  [i \in 1..Len(words) |->
                 IF i - 1 < currentWordIndex THEN "spoken"
                 ELSE IF i - 1 = currentWordIndex THEN "active"
                 ELSE ""]

\* updateProgress(): returns at once without an audio or a dock
updateProgress(audio, dock, words, segments) ==
    IF audio = 0 \/ ~dock THEN words
    ELSE updateTranscriptHighlight(audio, words, segments)

\* closeDock(): the audio is paused and let go of, the dock element is removed
closeDock ==
    /\ audioElements' =
          IF dockAudio = 0 THEN audioElements
          ELSE [audioElements EXCEPT
                   ![dockAudio].paused = TRUE,
                   ![dockAudio].pending = @ \/ ~audioElements[dockAudio].paused]
    /\ dockAudio' = 0
    /\ sherpaDock' = FALSE
    /\ wordClasses' = <<>>
    /\ UNCHANGED <<autoPlayTimers, transcriptSegments, isPlaying>>

\* a transcript of fifteen one-letter words
FifteenWords == [i \in 1..29 |-> IF i % 2 = 1 THEN "w" ELSE " "]

\* transcripts a show_immersive_dock message may carry (the empty one: none)
DockTranscripts ==
    { <<>>, <<"h","i">>, <<"a"," ","b">>, <<"a"," "," ","b","\n","c">>, FifteenWords }

\* onMessage, command show_immersive_dock
ShowImmersiveDockCmd ==
    \E withAudio \in BOOLEAN, transcript \in DockTranscripts :
        /\ withAudio => Len(audioElements) < MaxAudios
        /\ sherpaDock \/ keydownListeners < MaxDocks
        \* createSherpaDock: setupKeyboardShortcuts runs with every dock it creates
        /\ keydownListeners' = IF sherpaDock THEN keydownListeners ELSE keydownListeners + 1
        /\ UNCHANGED keyEffect
        /\ request' = [command |-> "show_immersive_dock"]
        /\ response' = [ok |-> TRUE]
        /\ lastDockEvent' = "show_immersive_dock"
        /\ sherpaDock' = TRUE
        /\ IF withAudio
           THEN /\ audioElements' = Append(audioElements, NewDockAudio)
                /\ dockAudio' = Len(audioElements) + 1
                /\ autoPlayTimers' = autoPlayTimers + 1
           ELSE UNCHANGED <<audioElements, dockAudio, autoPlayTimers>>
        /\ IF transcript # <<>>
           THEN /\ transcriptSegments' = TranscriptWords(transcript)
                /\ wordClasses' = [i \in 1..Len(TranscriptWords(transcript)) |-> ""]
           ELSE /\ transcriptSegments' = transcriptSegments
                /\ wordClasses' = IF sherpaDock THEN wordClasses ELSE <<>>
        /\ UNCHANGED <<document, sections, prevSections, passes, scrolledTo, isPlaying,
                       viewportVars, timeVars, imageVars, pollVars, backgroundVars, helperVars, popupVars>>

\* the timeout set by show_immersive_dock: dockAudio.play(), which the browser
\* may refuse
AutoPlayTimer ==
    /\ autoPlayTimers > 0
    /\ autoPlayTimers' = autoPlayTimers - 1
    /\ lastDockEvent' = "timeout"
    /\ \/ /\ dockAudio # 0 /\ sherpaDock
          /\ audioElements' = [audioElements EXCEPT ![dockAudio].paused = FALSE]
          /\ isPlaying' = TRUE
       \/ UNCHANGED <<audioElements, isPlaying>>
    /\ UNCHANGED <<contentVars, viewportVars, timeVars, imageVars, keyVars, pollVars, backgroundVars, helperVars, popupVars,
                   sherpaDock, dockAudio, transcriptSegments, wordClasses>>

\* onMessage, command hide_immersive_dock
HideImmersiveDockCmd ==
    /\ request' = [command |-> "hide_immersive_dock"]
    /\ response' = [ok |-> TRUE]
    /\ lastDockEvent' = "closeDock"
    /\ closeDock
    /\ UNCHANGED <<document, sections, prevSections, passes, scrolledTo,
                   viewportVars, timeVars, imageVars, keyVars, pollVars, backgroundVars, helperVars, popupVars>>

\* a click on the close button
CloseDockClick ==
    /\ sherpaDock
    /\ lastDockEvent' = "closeDock"
    /\ closeDock
    /\ UNCHANGED <<contentVars, viewportVars, timeVars, imageVars, keyVars, pollVars, backgroundVars, helperVars, popupVars>>

\* togglePlayPause(): a click on the play button
TogglePlayPause ==
    /\ sherpaDock
    /\ lastDockEvent' = "togglePlayPause"
    /\ IF dockAudio = 0 THEN UNCHANGED <<audioElements, isPlaying>>
       ELSE IF audioElements[dockAudio].paused
       THEN /\ audioElements' =
                  [audioElements EXCEPT
                      ![dockAudio].paused = FALSE,
                      ![dockAudio].currentTime = IF @ = DockDuration THEN 0 ELSE @]
            /\ isPlaying' = TRUE
       ELSE /\ audioElements' = [audioElements EXCEPT ![dockAudio].paused = TRUE,
                                                      ![dockAudio].pending = TRUE]
            /\ isPlaying' = FALSE
    /\ UNCHANGED <<contentVars, viewportVars, timeVars, imageVars, keyVars, pollVars, backgroundVars, helperVars, popupVars,
                   sherpaDock, dockAudio, autoPlayTimers, transcriptSegments, wordClasses>>

SkipSeconds == {0 - 10, 0 - 5, 5, 10}

\* skipTime(seconds): the skip buttons
SkipTime ==
    \E seconds \in SkipSeconds :
        /\ sherpaDock
        /\ lastDockEvent' = "skipTime"
        /\ IF dockAudio = 0 THEN UNCHANGED audioElements
           ELSE audioElements' =
                   [audioElements EXCEPT
                       ![dockAudio].currentTime = Max(0, Min(DockDuration, @ + seconds)),
                       ![dockAudio].pending = TRUE]
        /\ UNCHANGED <<contentVars, viewportVars, timeVars, imageVars, keyVars, pollVars, backgroundVars, helperVars, popupVars,
                       sherpaDock, dockAudio, autoPlayTimers, transcriptSegments,
                       wordClasses, isPlaying>>

\* the dock as one keydown listener finds it and leaves it
DockState ==
    [audioElements |-> audioElements, dockAudio |-> dockAudio, sherpaDock |-> sherpaDock,
     wordClasses |-> wordClasses, isPlaying |-> isPlaying, toggles |-> 0, closes |-> 0]

\* togglePlayPause() called by a keydown listener
KeyToggle(st) ==
    IF st.dockAudio = 0 THEN st
    ELSE IF st.audioElements[st.dockAudio].paused
    THEN [st EXCEPT !.audioElements[st.dockAudio].paused = FALSE,
                    !.audioElements[st.dockAudio].currentTime =
                        IF @ = DockDuration THEN 0 ELSE @,
                    !.isPlaying = TRUE,
                    !.toggles = @ + 1]
    ELSE [st EXCEPT !.audioElements[st.dockAudio].paused = TRUE,
                    !.audioElements[st.dockAudio].pending = TRUE,
                    !.isPlaying = FALSE,
                    !.toggles = @ + 1]

\* skipTime(seconds) called by a keydown listener
KeySkip(st, seconds) ==
    IF st.dockAudio = 0 THEN st
    ELSE [st EXCEPT !.audioElements[st.dockAudio].currentTime =
                        Max(0, Min(DockDuration, @ + seconds)),
                    !.audioElements[st.dockAudio].pending = TRUE]

\* closeDock() called by a keydown listener
KeyClose(st) ==
    [st EXCEPT !.audioElements =
                   IF st.dockAudio = 0 THEN @
                   ELSE [@ EXCEPT ![st.dockAudio].paused = TRUE,
                                  ![st.dockAudio].pending =
                                      @ \/ ~st.audioElements[st.dockAudio].paused],
               !.dockAudio = 0,
               !.sherpaDock = FALSE,
               !.wordClasses = <<>>,
               !.closes = @ + 1]

\* one listener added by setupKeyboardShortcuts handling a keydown event
KeyListener(st, code, inField) ==
    IF ~st.sherpaDock \/ inField THEN st
    ELSE CASE code = "Space"      -> KeyToggle(st)
           [] code = "ArrowLeft"  -> KeySkip(st, 0 - 5)
           [] code = "ArrowRight" -> KeySkip(st, 5)
           [] code = "Escape"     -> KeyClose(st)
           [] OTHER               -> st

RECURSIVE KeyListeners(_, _, _, _)
\* the listeners of the document run one after the other, in the order added
KeyListeners(st, code, inField, n) ==
    IF n = 0 THEN st
    ELSE KeyListeners(KeyListener(st, code, inField), code, inField, n - 1)

KeyCodes == {"Space", "ArrowLeft", "ArrowRight", "Escape", "KeyA"}

\* a key is pressed on the page: the document dispatches keydown to every
\* listener setupKeyboardShortcuts has added
KeyDown ==
    \E code \in KeyCodes, inField \in BOOLEAN :
        /\ keydownListeners > 0
        /\ LET st == KeyListeners(DockState, code, inField, keydownListeners)
           IN  /\ audioElements' = st.audioElements
               /\ dockAudio' = st.dockAudio
               /\ sherpaDock' = st.sherpaDock
               /\ wordClasses' = st.wordClasses
               /\ isPlaying' = st.isPlaying
               /\ keyEffect' = [code |-> code, toggles |-> st.toggles, closes |-> st.closes,
                                dock |-> sherpaDock /\ ~inField, audio |-> dockAudio # 0]
        /\ lastDockEvent' = "keydown"
        /\ UNCHANGED <<contentVars, viewportVars, timeVars, imageVars, pollVars, backgroundVars,
                       helperVars, popupVars, autoPlayTimers, transcriptSegments,
                       keydownListeners>>

SeekPositions == {0, 5, 11}

\* seekToPosition(event): a click on the progress bar
SeekToPosition ==
    \E position \in SeekPositions :
        /\ sherpaDock
        /\ lastDockEvent' = "seekToPosition"
        /\ IF dockAudio = 0 THEN UNCHANGED audioElements
           ELSE audioElements' = [audioElements EXCEPT ![dockAudio].currentTime = position,
                                                       ![dockAudio].pending = TRUE]
        /\ UNCHANGED <<contentVars, viewportVars, timeVars, imageVars, keyVars, pollVars, backgroundVars, helperVars, popupVars,
                       sherpaDock, dockAudio, autoPlayTimers, transcriptSegments,
                       wordClasses, isPlaying>>

\* the clock of a playing audio moves on by a second; at the end of the audio
\* it stops and the ended listener runs
DockClock ==
    \E a \in 1..Len(audioElements) :
        /\ ~audioElements[a].paused
        /\ lastDockEvent' = "clock"
        /\ IF audioElements[a].currentTime < DockDuration
           THEN /\ audioElements' = [audioElements EXCEPT ![a].currentTime = @ + 1,
                                                          ![a].pending = TRUE]
                /\ UNCHANGED isPlaying
           ELSE /\ audioElements' = [audioElements EXCEPT ![a].paused = TRUE,
                                                          ![a].pending = TRUE]
                /\ isPlaying' = IF sherpaDock THEN FALSE ELSE isPlaying
        /\ UNCHANGED <<contentVars, viewportVars, timeVars, imageVars, keyVars, pollVars, backgroundVars, helperVars, popupVars,
                       sherpaDock, dockAudio, autoPlayTimers, transcriptSegments,
                       wordClasses>>

\* a queued timeupdate event is delivered to the listener of audio element a
DockTimeUpdate ==
    \E a \in 1..Len(audioElements) :
        /\ audioElements[a].pending
        /\ audioElements[a].timeupdate
        /\ lastDockEvent' = "timeupdate"
        /\ audioElements' = [audioElements EXCEPT ![a].pending = FALSE]
        /\ wordClasses' = updateProgress(dockAudio, sherpaDock, wordClasses,
                                         transcriptSegments)
        /\ UNCHANGED <<contentVars, viewportVars, timeVars, imageVars, keyVars, pollVars, backgroundVars, helperVars, popupVars,
                       sherpaDock, dockAudio, autoPlayTimers, transcriptSegments,
                       isPlaying>>

-----------------------------------------------------------------------------
(* Documents the content script may be injected into *)

TextAb == <<"A","b">>
TextNews == <<"N","e","w","s">>

\* an element with the attributes the mapper reads
Element(tag, aria, id, parent, text) ==
    [tag |-> tag, role |-> "", className |-> "", aria |-> aria, id |-> id,
     parent |-> parent, innerText |-> text, textContent |-> text, top |-> 0]

\* the kinds of element a page is built from: tag, aria-label, text
ElementKinds ==
    { <<"div", <<>>, <<>>>>, <<"h2", <<>>, TextAb>>,
      <<"main", TextNews, <<>>>>, <<"main", <<>>, <<>>>> }

PageIds == {"", "a"}

\* parents that keep the sequence in document order; headings hold no elements
ParentsFor(doc) ==
    IF Len(doc) = 0 THEN {0}
    ELSE {0} \cup {p \in {Len(doc)} \cup {Ancestors(doc, Len(doc))[i] :
                                            i \in 1..Len(Ancestors(doc, Len(doc)))} :
                      ~IsHeading(doc[p])}

\* ids are unique in a valid page
IdsFor(doc) == {id \in PageIds : id = "" \/ \A n \in 1..Len(doc) : doc[n].id # id}

RECURSIVE PagesOfSize(_)
PagesOfSize(n) ==
    IF n = 0 THEN {<<>>}
    ELSE {Append(doc, Element(k[1], k[2], id, p, k[3])) :
            <<doc, k, id, p>> \in
                {<<d, k, i, q>> \in PagesOfSize(n - 1) \X ElementKinds \X PageIds \X (0..(n - 1)) :
                    i \in IdsFor(d) /\ q \in ParentsFor(d)}}

Pages == UNION {PagesOfSize(n) : n \in 0..MaxNodes}

NoAudio == [present |-> FALSE]

ContentIdle ==
    /\ sections = <<>>
    /\ prevSections = <<>>
    /\ passes = 0
    /\ request = [command |-> "none"]
    /\ response = [sent |-> FALSE]
    /\ scrolledTo = 0

ViewportIdle == scrollY = 0 /\ viewportHeight = 0

TimeIdle == timeString = <<>> /\ parsedTime = NotCalled

ImageIdle == viewportWidth = 0 /\ pageImages = <<>>

DockIdle ==
    /\ sherpaDock = FALSE
    /\ dockAudio = 0
    /\ audioElements = <<>>
    /\ autoPlayTimers = 0
    /\ transcriptSegments = <<>>
    /\ wordClasses = <<>>
    /\ isPlaying = FALSE
    /\ lastDockEvent = "load"

HelperIdle ==
    /\ textTarget = 0 /\ sectionText = NotCalled
    /\ sectionName = <<>> /\ matchedId = NotCalled

BackgroundIdle ==
    /\ analysisPc = "idle"
    /\ autoTriggered = FALSE
    /\ analysisLog = <<>>
    /\ analysisResponse = [sent |-> FALSE]
    /\ utterance = "none"
    /\ speakTextPending = FALSE
    /\ analyses = 0

PollIdle ==
    /\ pollCount = 0
    /\ inFlight = [current |-> 0, below |-> 0, atLimit |-> 0]
    /\ activeIntervals = 0
    /\ buttonState = "initial"
    /\ buttonHandler = "create"
    /\ jobs = 0

KeyIdle ==
    /\ keydownListeners = 0
    /\ keyEffect = [code |-> "none", toggles |-> 0, closes |-> 0, dock |-> FALSE, audio |-> FALSE]

PopupIdle ==
    /\ pageStructureData = NoPageStructure
    /\ pollingInterval = FALSE
    /\ immersiveSummaryAudio = NoAudio
    /\ immersivePlaybackTimes = <<>>
    /\ currentSectionIndex = 0
    /\ timeupdateAttached = FALSE
    /\ navRequests = <<>>
    /\ lastEvent = "load"

\* the content script injected into a page
Init ==
    /\ document \in Pages
    /\ ContentIdle /\ ViewportIdle /\ TimeIdle /\ PopupIdle /\ ImageIdle /\ HelperIdle /\ DockIdle
    /\ BackgroundIdle
    /\ PollIdle
    /\ KeyIdle

Next ==
    \/ ParsePageForMappingCmd
    \/ GetPageForBackendCmd
    \/ NavigateToSectionCmd

Spec == Init /\ [][Next]_vars

-----------------------------------------------------------------------------
(* Claims about the mapping pass (specification Spec) *)

\* C1: in the result of one mapping pass no two sections carry the same id.
C1_UniqueSectionIds ==
    \A i, j \in 1..Len(sections) : i # j => sections[i].id # sections[j].id

\* C2: a second pass over the document left by the first returns, for every
\* heading and landmark, the id the first pass returned for it.
C2_SecondPassSameIds ==
    passes >= 2 =>
        /\ Len(sections) = Len(prevSections)
        /\ \A i \in 1..Len(sections) :
              /\ sections[i].node = prevSections[i].node
              /\ sections[i].id = prevSections[i].id

\* the document change a mapping pass may make to element n
IdOnlyWrittenWhereMissing(old, new) ==
    IF old.id # "" THEN new = old
    ELSE \/ new = old
         \/ /\ IsHeading(old) \/ IsLandmark(old)
            /\ new.id # ""
            /\ new = [old EXCEPT !.id = new.id]

\* C10: a mapping pass changes the document only by giving an id to a heading or
\* landmark that had none; an element with an id keeps it, nothing else changes.
C10_OnlyMissingIdsWritten ==
    [][/\ Len(document') = Len(document)
       /\ \A n \in 1..Len(document) : IdOnlyWrittenWhereMissing(document[n], document'[n])]_vars

\* C10 witness: after two passes one element carries a synthesized id while
\* another element still carries its original id.
C10_Witness ==
    /\ passes >= 2
    /\ \E n, m \in 1..Len(document) :
          /\ document[n].id = GenId("landmark", 0)
          /\ IsLandmark(document[m]) /\ document[m].id = "a"

\* C6: navigate_to_section with an id that matches no element is answered
\* {ok: false, error: "Section not found: <id>"} without scrolling; with an id
\* that matches an element it scrolls to that element and is answered {ok: true};
\* this holds for every command, also those received after a caught failure.
C6_NavigationAnswered ==
    [][request'.command = "navigate_to_section" =>
          LET id   == request'.sectionId
              hits == {n \in 1..Len(document) : document[n].id = id}
          IN  /\ document' = document
              /\ IF hits = {}
                 THEN /\ response' = [ok |-> FALSE, error |-> "Section not found: " \o id]
                      /\ scrolledTo' = scrolledTo
                 ELSE /\ response' = [ok |-> TRUE]
                      /\ scrolledTo' \in hits
                      /\ \A n \in hits : scrolledTo' <= n]_vars

\* C6 witness: a command for a missing id answered "Section not found" after
\* an earlier command had scrolled to an element, the scroll target untouched.
C6_Witness ==
    /\ request = [command |-> "navigate_to_section", sectionId |-> "zz"]
    /\ response = [ok |-> FALSE, error |-> "Section not found: zz"]
    /\ scrolledTo # 0

-----------------------------------------------------------------------------
(* Pages made of headings only, with texts around the limits of the filter *)

WordMenu == <<"M","e","n","u">>
WordContents == <<"C","O","N","T","E","N","T","S">>
WordNavigation == <<"N","a","v","i","g","a","t","i","o","n">>
WordEdit == <<"E","d","i","t">>
WordEdi == <<"E","d","i">>
WordMenus == <<"m","e","n","u","s">>

HeadingWords == {<<>>, TextAb, WordMenu, WordContents, WordNavigation, WordEdit,
                 WordEdi, WordMenus}

\* paddings that bring the words to the lengths 0, 1, 2, 80, 81, 100 and 101
PadLengths == {0, 1, 2, 78, 79, 97, 98, 99}

Blanks == {<<>>, <<" ">>}

HeadingTexts ==
    {lead \o w \o Pad(k) \o trail :
        <<lead, w, k, trail>> \in Blanks \X HeadingWords \X PadLengths \X Blanks}

\* a heading element; a heading that is not rendered has an empty innerText
HeadingElement(tag, text, rendered) ==
    [tag |-> tag, role |-> "", className |-> "", aria |-> <<>>, id |-> "", parent |-> 0,
     innerText |-> IF rendered THEN text ELSE <<>>, textContent |-> text, top |-> 0]

HeadingPages ==
    {<<HeadingElement("h1", t, r), HeadingElement("h3", TextAb, TRUE)>> :
        <<t, r>> \in HeadingTexts \X BOOLEAN}

InitHeadings ==
    /\ document \in HeadingPages
    /\ ContentIdle /\ ViewportIdle /\ TimeIdle /\ PopupIdle /\ ImageIdle /\ HelperIdle /\ DockIdle
    /\ BackgroundIdle
    /\ PollIdle
    /\ KeyIdle

SpecHeadings == InitHeadings /\ [][Next]_vars

\* the trimmed text of element n, as the page shows it
ShownText(n) ==
    Trim(IF document[n].innerText # <<>> THEN document[n].innerText
         ELSE document[n].textContent)

\* the rule of the claim, stated on the text
MeetsHeadingRule(t) ==
    /\ Len(t) \in 2..100
    /\ ToLowerCase(t) \notin {ToLowerCase(WordContents), ToLowerCase(WordMenu),
                              ToLowerCase(WordNavigation)}
    /\ ~(Len(t) >= 4 /\ ToLowerCase(SubSeq(t, 1, 4)) = ToLowerCase(WordEdit))

\* C9: a pass emits exactly one section for every heading whose trimmed text has
\* 2..100 characters, is none of contents/menu/navigation and does not start
\* with edit (case-insensitively), none for any other heading, and the label is
\* the trimmed text cut to at most 80 characters.
C9_HeadingFilter ==
    passes >= 1 =>
        \A n \in 1..Len(document) :
            IsHeading(document[n]) =>
                LET t    == ShownText(n)
                    mine == {i \in 1..Len(sections) :
                                sections[i].node = n /\ sections[i].role = "heading"}
                IN  IF MeetsHeadingRule(t)
                    THEN /\ Cardinality(mine) = 1
                         /\ \A i \in mine :
                               /\ Len(sections[i].label) = (IF Len(t) > 80 THEN 80 ELSE Len(t))
                               /\ \A k \in 1..Len(sections[i].label) :
                                     sections[i].label[k] = t[k]
                    ELSE mine = {}

\* C9 witness: a heading of exactly 100 characters was emitted with an
\* 80-character label next to a second emitted heading.
C9_Witness ==
    /\ passes >= 1
    /\ Len(sections) = 2
    /\ Len(ShownText(1)) = 100
    /\ Len(sections[1].label) = 80

-----------------------------------------------------------------------------
(* Pages of positioned headings, for the current-section locator *)

HeadingTops == {0, 400, 600, 1200, 2000}

PositionedHeading(top) ==
    [tag |-> "h2", role |-> "", className |-> "", aria |-> <<>>, id |-> "", parent |-> 0,
     innerText |-> TextAb, textContent |-> TextAb, top |-> top]

PositionedPages ==
    UNION {[1..n -> {PositionedHeading(t) : t \in HeadingTops}] : n \in 0..MaxHeadings}

InitLocator ==
    /\ document \in PositionedPages
    /\ sections = <<>> /\ prevSections = <<>> /\ passes = 0
    /\ request = [command |-> "none"]
    /\ response = [sent |-> FALSE]
    /\ scrolledTo = 0
    /\ scrollY \in ScrollPositions
    /\ viewportHeight \in ViewportHeights
    /\ TimeIdle /\ PopupIdle /\ ImageIdle /\ HelperIdle /\ DockIdle
    /\ BackgroundIdle
    /\ PollIdle
    /\ KeyIdle

NextLocator ==
    \/ ExtractCurrentSectionCmd
    \/ ScrollWindow

SpecLocator == InitLocator /\ [][NextLocator]_vars

\* headings inside the window [sY - 200, sY + vh + 200]
InWindow(sY, vh) ==
    {n \in 1..Len(document) :
        /\ IsHeading(document[n])
        /\ document[n].top >= sY - 200
        /\ document[n].top <= sY + vh + 200}

\* C8: the locator ignores the headings outside [scrollY-200, scrollY+vh+200] and
\* selects, among the others, the one with the smallest |top - scrollY|, the first
\* in document order on a tie; tops [0,600,1200,2000] at scrollY 500 with a
\* viewport of 800 select the heading at 600.
C8_NearestHeadingSelected ==
    request.command = "extract_current_section" =>
        LET r   == response.sectionContent
            sY  == r.scrollPosition
            win == InWindow(sY, viewportHeight)
        IN  /\ win # {} =>
                /\ r.node \in win
                /\ \A m \in win :
                      /\ Abs(document[r.node].top - sY) <= Abs(document[m].top - sY)
                      /\ Abs(document[r.node].top - sY) = Abs(document[m].top - sY)
                            => r.node <= m
            /\ ( /\ [n \in 1..Len(document) |-> document[n].top] = <<0, 600, 1200, 2000>>
                 /\ sY = 500 /\ viewportHeight = 800 ) => document[r.node].top = 600

\* C8 witness: the example of the claim has been located, and it has a heading
\* outside the window.
C8_Witness ==
    /\ request.command = "extract_current_section"
    /\ [n \in 1..Len(document) |-> document[n].top] = <<0, 600, 1200, 2000>>
    /\ response.sectionContent.scrollPosition = 500
    /\ viewportHeight = 800
    /\ response.sectionContent.node = 2
    /\ 1 \notin InWindow(500, 800)

-----------------------------------------------------------------------------
(* Time strings handed to parseTimeToSeconds *)

TimeChars == {"0", "1", "3", ":", "g"}

Time000105 == <<"0","0",":","0","1",":","0","5">>
TimeFourFields == <<"1",":","2",":","3",":","4">>

TimeStrings ==
    UNION {[1..n -> TimeChars] : n \in 0..MaxTimeLength}
        \cup {Time0130, Time000105, TimeGarbage, TimeFourFields}

InitTime ==
    /\ timeString \in TimeStrings
    /\ parsedTime = NotCalled
    /\ ContentIdle /\ document = <<>> /\ ViewportIdle /\ PopupIdle /\ ImageIdle /\ HelperIdle /\ DockIdle
    /\ BackgroundIdle
    /\ PollIdle
    /\ KeyIdle

NextTime == ParseTimeCall

SpecTime == InitTime /\ [][NextTime]_vars

\* a field made of decimal digits only
IsNumberField(f) == f # <<>> /\ \A i \in 1..Len(f) : IsDigit(f[i])

\* C7: parseTimeToSeconds returns m*60+s for "MM:SS" and h*3600+m*60+s for
\* "HH:MM:SS", and exactly 0 for every other input: an empty string, a string
\* without a colon, one with more than three fields, and a two- or three-field
\* string whose fields are not numbers.
C7_ParseTimeToSeconds ==
    parsedTime # NotCalled =>
        LET f == Split(timeString, ":")
        IN  /\ timeString = Time0130 => parsedTime = Num(90)
            /\ timeString = Time000105 => parsedTime = Num(65)
            /\ timeString = TimeGarbage => parsedTime = Num(0)
            /\ IF Len(f) = 2 /\ IsNumberField(f[1]) /\ IsNumberField(f[2])
               THEN parsedTime = Num(DecimalValue(f[1]) * 60 + DecimalValue(f[2]))
               ELSE IF /\ Len(f) = 3
                       /\ IsNumberField(f[1]) /\ IsNumberField(f[2]) /\ IsNumberField(f[3])
               THEN parsedTime = Num(DecimalValue(f[1]) * 3600 + DecimalValue(f[2]) * 60
                                        + DecimalValue(f[3]))
               ELSE parsedTime = Num(0)

\* the part of C7 that the code meets: the two clock formats and the inputs
\* that do not have two or three fields
C7_ClockFormatsAndFieldCount ==
    parsedTime # NotCalled =>
        LET f == Split(timeString, ":")
        IN  /\ timeString = Time0130 => parsedTime = Num(90)
            /\ timeString = Time000105 => parsedTime = Num(65)
            /\ timeString = TimeGarbage => parsedTime = Num(0)
            /\ Len(f) = 2 /\ IsNumberField(f[1]) /\ IsNumberField(f[2])
                  => parsedTime = Num(DecimalValue(f[1]) * 60 + DecimalValue(f[2]))
            /\ Len(f) = 3 /\ IsNumberField(f[1]) /\ IsNumberField(f[2]) /\ IsNumberField(f[3])
                  => parsedTime = Num(DecimalValue(f[1]) * 3600 + DecimalValue(f[2]) * 60
                                         + DecimalValue(f[3]))
            /\ (timeString = <<>> \/ Len(f) \notin {2, 3}) => parsedTime = Num(0)

-----------------------------------------------------------------------------
(* The popup opened on an analysed page *)

LabelIntroduction == <<"I","n","t","r","o","d","u","c","t","i","o","n">>
LabelResults == <<"R","e","s","u","l","t","s">>

\* the page structure the content script reported
ReportedStructure ==
    [present |-> TRUE,
     sections |-> << [id |-> "intro", label |-> LabelIntroduction],
                     [id |-> "results", label |-> LabelResults] >>]

InitPopup ==
    /\ pageStructureData \in {NoPageStructure, ReportedStructure}
    /\ pollingInterval = FALSE
    /\ immersiveSummaryAudio = NoAudio
    /\ immersivePlaybackTimes = <<>>
    /\ currentSectionIndex = 0
    /\ timeupdateAttached = FALSE
    /\ navRequests = <<>>
    /\ lastEvent = "load"
    /\ ContentIdle /\ document = <<>> /\ ViewportIdle /\ TimeIdle /\ ImageIdle /\ HelperIdle /\ DockIdle
    /\ BackgroundIdle
    /\ PollIdle
    /\ KeyIdle

\* the events of the popup; none reaches a popup that has been unloaded
NextPopup ==
    \/ lastEvent # "unload" /\ CreateImmersiveSummary
    \/ lastEvent # "unload" /\ PollSuccess
    \/ lastEvent # "unload" /\ PlayImmersiveSummary
    \/ lastEvent # "unload" /\ AudioTimeUpdate
    \/ lastEvent # "unload" /\ AudioEnded
    \/ PopupUnload

SpecPopup == InitPopup /\ [][NextPopup]_vars

\* 0-based indices of the segments that have started at clock position t
Started(t) ==
    {i \in 0..(Len(immersivePlaybackTimes) - 1) :
        ~immersivePlaybackTimes[i + 1].time.nan /\ immersivePlaybackTimes[i + 1].time.v <= t}

\* C3: after every playback tick the cursor designates the last segment of the
\* list whose start time is <= currentTime, whenever some segment has started
\* (Intro@00:00, Results@01:30: Intro at 89, Results at 95).
C3_CursorIsLastStarted ==
    (lastEvent = "timeupdate" /\ Started(immersiveSummaryAudio.currentTime) # {}) =>
        /\ currentSectionIndex \in Started(immersiveSummaryAudio.currentTime)
        /\ \A i \in Started(immersiveSummaryAudio.currentTime) : i <= currentSectionIndex

\* C3 restricted to segment lists in which every start time is a number
C3_CursorIsLastStartedOfNumericTimes ==
    (\A i \in 1..Len(immersivePlaybackTimes) : ~immersivePlaybackTimes[i].time.nan)
        => C3_CursorIsLastStarted

\* C4: a tick requests at most one navigation, only when it moves the cursor
\* and only with the resolved sectionId of the segment it moves onto; a segment
\* without sectionId is moved onto without any request; no other event
\* requests a navigation.
C4_NavigationOnlyOnSegmentChange ==
    [][IF lastEvent' = "timeupdate"
       THEN /\ Len(navRequests') <= 1
            /\ currentSectionIndex' = currentSectionIndex => navRequests' = <<>>
            /\ currentSectionIndex' # currentSectionIndex =>
                  LET seg == immersivePlaybackTimes[currentSectionIndex' + 1]
                  IN  navRequests' = IF seg.sectionId = NullId THEN <<>>
                                     ELSE <<seg.sectionId>>
       ELSE navRequests' = <<>>]_vars

\* C4 witness: the cursor has passed over an unresolved segment and the tick
\* that moved it onto the next, resolved segment requested that one navigation.
C4_Witness ==
    /\ lastEvent = "timeupdate"
    /\ currentSectionIndex >= 1
    /\ immersivePlaybackTimes[currentSectionIndex].sectionId = NullId
    /\ immersivePlaybackTimes[currentSectionIndex + 1].sectionId = "results"
    /\ navRequests = <<"results">>

CursorInBounds ==
    /\ currentSectionIndex >= 0
    /\ IF immersivePlaybackTimes = <<>> THEN currentSectionIndex = 0
       ELSE currentSectionIndex < Len(immersivePlaybackTimes)

\* C5: the cursor never decreases except back to 0 on a restart (play pressed
\* at currentTime 0, or the ended event), and it stays inside the segment list.
C5_CursorMonotone ==
    [][/\ CursorInBounds /\ CursorInBounds'
       /\ currentSectionIndex' < currentSectionIndex =>
             /\ currentSectionIndex' = 0
             /\ \/ lastEvent' = "ended"
                \/ lastEvent' = "play" /\ immersiveSummaryAudio.currentTime = 0]_vars

\* C5 witness: playback resumed after a pause in the middle of the audio with
\* the cursor still on a later segment.
C5_Witness ==
    /\ lastEvent = "play"
    /\ immersiveSummaryAudio.currentTime > 0
    /\ currentSectionIndex >= 1

-----------------------------------------------------------------------------
(* Pages of headings and content containers, for the locator's fallbacks *)

MaxBlocks == 2

TextHello == <<"H","e","l","l","o"," ","w","o","r","l","d">>
TextAbc == <<"A","b","c">>

\* an element with a class, a position and a text of its own
Block(tag, className, id, parent, text, top) ==
    [tag |-> tag, role |-> "", className |-> className, aria |-> <<>>, id |-> id,
     parent |-> parent, innerText |-> text, textContent |-> text, top |-> top]

\* tag, class, id, text, top
BlockKinds ==
    { <<"h2", "", "", TextAbc, 0>>, <<"h2", "", "", TextAbc, 2000>>,
      <<"main", "", "", TextHello, 0>>, <<"article", "", "", TextHello, 0>>,
      <<"div", "content", "", TextHello, 0>>, <<"div", "", "content", TextHello, 0>>,
      <<"div", "main-content", "", TextHello, 0>>, <<"div", "", "", TextHello, 0>>,
      <<"nav", "", "", TextHello, 0>> }

\* the textContent of every element that holds child elements, recomputed from
\* its children (the elements are in document order, so last to first)
RECURSIVE WithTextContent(_, _)
WithTextContent(doc, n) ==
    IF n = 0 THEN doc
    ELSE LET kids == Children(doc, n)
             RECURSIVE Joined(_)
             Joined(m) == IF m > Len(doc) THEN <<>>
                          ELSE (IF m \in kids THEN doc[m].textContent ELSE <<>>)
                               \o Joined(m + 1)
         IN  WithTextContent(
                 IF kids = {} THEN doc
                 ELSE [doc EXCEPT ![n].textContent = Joined(n + 1),
                                  ![n].innerText = Joined(n + 1)],
                 n - 1)

RECURSIVE BlockPagesOfSize(_)
BlockPagesOfSize(n) ==
    IF n = 0 THEN {<<>>}
    ELSE {Append(doc, Block(k[1], k[2], k[3], p, k[4], k[5])) :
            <<doc, k, p>> \in
                {<<d, k, q>> \in BlockPagesOfSize(n - 1) \X BlockKinds \X (0..(n - 1)) :
                    /\ q \in ParentsFor(d)
                    /\ k[3] = "" \/ \A m \in 1..Len(d) : d[m].id # k[3]}}

BlockPages ==
    {WithTextContent(doc, Len(doc)) : doc \in UNION {BlockPagesOfSize(n) : n \in 0..MaxBlocks}}

InitFallback ==
    /\ document \in BlockPages
    /\ sections = <<>> /\ prevSections = <<>> /\ passes = 0
    /\ request = [command |-> "none"]
    /\ response = [sent |-> FALSE]
    /\ scrolledTo = 0
    /\ scrollY \in ScrollPositions
    /\ viewportHeight \in ViewportHeights
    /\ TimeIdle /\ PopupIdle /\ ImageIdle /\ HelperIdle /\ DockIdle
    /\ BackgroundIdle
    /\ PollIdle
    /\ KeyIdle

SpecFallback == InitFallback /\ [][NextLocator]_vars

\* the content containers of the page, in document order
ContentContainers ==
    {n \in 1..Len(document) :
        \/ document[n].tag \in {"main", "article"}
        \/ document[n].className \in {"content", "main-content"}
        \/ document[n].id = "content"}

\* C11: every extract_current_section command is answered {ok: true} with a
\* section element: a heading of the page, or, when no heading is selected, the
\* first main/article/content container titled "Main Content", or, when the page
\* has no such container, document.body titled "Page Content".
C11_FallbackChain ==
    request.command = "extract_current_section" =>
        LET r == response.sectionContent
        IN  /\ response.ok = TRUE
            /\ r.node \in 0..Len(document)
            /\ r.sectionElement = IF r.node = 0 THEN "body" ELSE document[r.node].tag
            /\ InWindow(r.scrollPosition, viewportHeight) = {} =>
                  IF ContentContainers # {}
                  THEN /\ r.node \in ContentContainers
                       /\ \A m \in ContentContainers : r.node <= m
                       /\ r.sectionTitle = TitleMainContent
                  ELSE /\ r.node = 0
                       /\ r.sectionElement = "body"
                       /\ r.sectionTitle = TitlePageContent
            /\ r.node # 0 /\ IsHeading(document[r.node]) =>
                  r.node \in InWindow(r.scrollPosition, viewportHeight)

\* C11 witness: on a page without headings, the first of two top-level
\* containers has been returned as "Main Content", with its text.
C11_Witness ==
    /\ request.command = "extract_current_section"
    /\ Len(document) = 2
    /\ document[1].tag = "article" /\ document[2].tag = "main"
    /\ document[2].parent = 0
    /\ response.sectionContent.node = 1
    /\ response.sectionContent.sectionTitle = TitleMainContent
    /\ response.sectionContent.content = TextHello

\* C11, second case: a page without headings and containers returns document.body
C11_BodyReached ==
    /\ request.command = "extract_current_section"
    /\ Len(document) = 2
    /\ document[1].tag = "div" /\ document[2].tag = "nav"
    /\ response.sectionContent.node = 0
    /\ response.sectionContent.sectionTitle = TitlePageContent

-----------------------------------------------------------------------------
(* Pages of images, for extractViewportImages *)

MaxImages == 2

SrcPhoto == <<"a",".","p","n","g">>
SrcTrackingPixel == <<"/","p","i","x","e","l",".","g","i","f">>

Image(left, top, width, height, src) ==
    [left |-> left, top |-> top, width |-> width, height |-> height, src |-> src]

ImageKinds ==
    { Image(0, 0, 100, 100, SrcPhoto),       \* fully inside at scrollY 0
      Image(0, 700, 100, 200, SrcPhoto),     \* top half above the bottom edge
      Image(0, 750, 100, 75, SrcPhoto),      \* two thirds inside
      Image(0, 800, 100, 100, SrcPhoto),     \* entirely below the viewport
      Image(0 - 50, 0, 100, 100, SrcPhoto),  \* left half cut off
      Image(1000, 0, 100, 100, SrcPhoto),    \* entirely to the right
      Image(10, 10, 0, 0, SrcPhoto),         \* no rendered area
      Image(0, 0, 29, 100, SrcPhoto),
      Image(0, 0, 100, 29, SrcPhoto),
      Image(0, 2300, 30, 30, SrcPhoto),
      Image(0, 790, 100, 100, SrcPhoto),     \* a tenth inside
      Image(0, 795, 100, 100, SrcPhoto),     \* a twentieth inside
      Image(0, 777, 100, 40, SrcPhoto),      \* 23 of 40 rows inside: 57.5 percent
      Image(0, 0, 100, 100, <<>>),
      Image(0, 0, 100, 100, SrcDataImage \o <<"/">>),
      Image(0, 0, 100, 100, SrcTrackingPixel) }

ImagePages == UNION {[1..n -> ImageKinds] : n \in 0..MaxImages}

ViewportWidths == {1000}

InitImages ==
    /\ ContentIdle /\ document = <<>> /\ TimeIdle /\ PopupIdle /\ HelperIdle /\ DockIdle
    /\ scrollY \in ScrollPositions
    /\ viewportHeight \in ViewportHeights
    /\ viewportWidth \in ViewportWidths
    /\ pageImages \in ImagePages
    /\ BackgroundIdle
    /\ PollIdle
    /\ KeyIdle

NextImages ==
    \/ ExtractViewportImagesCmd
    \/ ScrollWindow

SpecImages == InitImages /\ [][NextImages]_vars

\* the box of page image i in the viewport's coordinates when the answer was made
ShownBox(i) ==
    [x1 |-> pageImages[i].left, x2 |-> pageImages[i].left + pageImages[i].width,
     y1 |-> pageImages[i].top - response.scrollPosition.y,
     y2 |-> pageImages[i].top - response.scrollPosition.y + pageImages[i].height]

\* area of the intersection of that box with [0,width]x[0,height]
IntersectionArea(i) ==
    LET b == ShownBox(i)
        w == Min(b.x2, response.viewportWidth) - Max(b.x1, 0)
        h == Min(b.y2, response.viewportHeight) - Max(b.y1, 0)
    IN  IF w > 0 /\ h > 0 THEN w * h ELSE 0

ImageArea(i) == pageImages[i].width * pageImages[i].height

\* p is a whole number nearest to 100 * part / whole (at a half, either neighbour)
NearestPercent(p, part, whole) ==
    /\ 2 * (100 * part) >= (2 * p - 1) * whole
    /\ 2 * (100 * part) <= (2 * p + 1) * whole

Returned == {response.images[k].index : k \in 1..Len(response.images)}

\* C12: an image whose box does not overlap the viewport rectangle is not
\* returned (in particular one lying entirely below viewportHeight); a returned
\* image carries as visibilityPercentage the rounded ratio of the clamped
\* intersection area to its area times 100 (a whole number nearest to it), a
\* value in 0..100, which is 50 when exactly the top half of the image is
\* inside the viewport.
C12_VisibilityPercentage ==
    request.command = "extract_viewport_images" =>
        /\ \A i \in 1..Len(pageImages) :
              /\ IntersectionArea(i) = 0 => i \notin Returned
              /\ ShownBox(i).y1 >= response.viewportHeight => i \notin Returned
        /\ \A k \in 1..Len(response.images) :
              LET r == response.images[k]
                  b == ShownBox(r.index)
              IN  /\ r.visibilityPercentage \in 0..100
                  /\ NearestPercent(r.visibilityPercentage,
                                    IntersectionArea(r.index), ImageArea(r.index))
                  /\ ( /\ b.x1 >= 0 /\ b.x2 <= response.viewportWidth /\ b.y1 >= 0
                       /\ 2 * (response.viewportHeight - b.y1) = b.y2 - b.y1 )
                        => r.visibilityPercentage = 50

\* C12 witness: the image whose top half is inside the viewport has been returned
\* with 50, next to one that lies entirely below the viewport and was left out.
C12_Witness ==
    /\ request.command = "extract_viewport_images"
    /\ pageImages = <<Image(0, 800, 100, 100, SrcPhoto), Image(0, 700, 100, 200, SrcPhoto)>>
    /\ response.scrollPosition.y = 0 /\ response.viewportHeight = 800
    /\ Len(response.images) = 1
    /\ response.images[1].index = 2
    /\ response.images[1].visibilityPercentage = 50

\* page image i passes the size, visibility and src rules
Qualifies(i) ==
    /\ pageImages[i].width >= 30 /\ pageImages[i].height >= 30
    /\ IntersectionArea(i) > 0
    /\ 2 * (100 * IntersectionArea(i)) > 19 * ImageArea(i)
    /\ pageImages[i].src # <<>>
    /\ ~Includes(pageImages[i].src, SrcDataImage)
    /\ ~Includes(pageImages[i].src, SrcPixel)

\* C13: every returned image has rendered width >= 30, height >= 30 and
\* visibilityPercentage >= 10; an image without rendered area has visibility 0
\* and is left out, and the command is still answered {ok: true}, with every other image that passes the
\* rules returned, in page order.
C13_SmallAndDegenerateImages ==
    request.command = "extract_viewport_images" =>
        /\ response.ok = TRUE
        /\ \A k \in 1..Len(response.images) :
              /\ response.images[k].width >= 30
              /\ response.images[k].height >= 30
              /\ response.images[k].visibilityPercentage >= 10
              /\ \A j \in 1..Len(response.images) :
                    j < k => response.images[j].index < response.images[k].index
        /\ \A i \in 1..Len(pageImages) :
              /\ ImageArea(i) = 0 =>
                    /\ i \notin Returned
                    /\ VisibilityPercentage(
                           BoundingClientRect(pageImages[i], 0, response.scrollPosition.y),
                           response.viewportWidth, response.viewportHeight) = 0
              /\ Qualifies(i) => i \in Returned

\* C13 witness: an image without rendered area came first and was left out, the
\* image after it was returned.
C13_Witness ==
    /\ request.command = "extract_viewport_images"
    /\ pageImages = <<Image(10, 10, 0, 0, SrcPhoto), Image(0, 0, 100, 100, SrcPhoto)>>
    /\ response.ok = TRUE
    /\ Len(response.images) = 1
    /\ response.images[1].index = 2
    /\ response.images[1].visibilityPercentage = 100

-----------------------------------------------------------------------------
(* Section lists and segment names, for findMatchingSectionId *)

MaxSections == 3

LabelAb == <<"A","b">>
LabelLowerAb == <<"a","b">>
LabelB == <<"b">>
LabelXy == <<"X","y">>
NameUpperAb == <<"A","B">>
NameZz == <<"Z","z">>

SectionLabels == {LabelAb, LabelLowerAb, TextAbc, LabelB, LabelXy}
SegmentNames == {NameUpperAb, LabelLowerAb, LabelB, NameZz, <<>>}

\* a section list with the given labels; the ids "s1", "s2", ... are unique
LabelledSections(labels) ==
    [i \in 1..Len(labels) |->
        [id |-> "s" \o ToString(i), label |-> labels[i], role |-> "heading"]]

SectionLists ==
    {LabelledSections(labels) :
        labels \in UNION {[1..n -> SectionLabels] : n \in 0..MaxSections}}

InitMatch ==
    /\ ContentIdle /\ document = <<>> /\ ViewportIdle /\ TimeIdle /\ ImageIdle /\ DockIdle
    /\ pageStructureData \in
          {NoPageStructure} \cup {[present |-> TRUE, sections |-> l] : l \in SectionLists}
    /\ pollingInterval = FALSE
    /\ immersiveSummaryAudio = NoAudio
    /\ immersivePlaybackTimes = <<>>
    /\ currentSectionIndex = 0
    /\ timeupdateAttached = FALSE
    /\ navRequests = <<>>
    /\ lastEvent = "load"
    /\ textTarget = 0 /\ sectionText = NotCalled
    /\ sectionName \in SegmentNames
    /\ matchedId = NotCalled
    /\ BackgroundIdle
    /\ PollIdle
    /\ KeyIdle

NextMatch == FindMatchingSectionIdCall

SpecMatch == InitMatch /\ [][NextMatch]_vars

\* the two letters are the same up to case
SameLetter(c, d) ==
    \/ c = d
    \/ \E i \in 1..Len(UpperChars) :
          {c, d} = {UpperChars[i], LowerChars[i]}

\* a equals b up to the case of the letters
SameText(a, b) == Len(a) = Len(b) /\ \A i \in 1..Len(a) : SameLetter(a[i], b[i])

\* a occurs in b up to the case of the letters
OccursIn(a, b) ==
    \E k \in 0..(Len(b) - Len(a)) : SameText(a, SubSeq(b, k + 1, k + Len(a)))

\* C14: findMatchingSectionId returns the id of the first section whose label
\* equals the name up to case, also when a section matching only by substring
\* comes earlier; without such a section, the id of the first section whose label
\* contains the name or is contained in it, up to case; otherwise null.
C14_FirstExactThenFirstPartial ==
    matchedId.called =>
        LET secs    == IF pageStructureData.present THEN pageStructureData.sections ELSE <<>>
            exact   == {i \in 1..Len(secs) : SameText(secs[i].label, sectionName)}
            partial == {i \in 1..Len(secs) : \/ OccursIn(sectionName, secs[i].label)
                                             \/ OccursIn(secs[i].label, sectionName)}
        IN  IF exact # {}
            THEN \E i \in exact : /\ \A j \in exact : i <= j
                                  /\ matchedId.id = secs[i].id
            ELSE IF partial # {}
            THEN \E i \in partial : /\ \A j \in partial : i <= j
                                    /\ matchedId.id = secs[i].id
            ELSE matchedId.id = NullId

\* C14 witness: the name "AB" was resolved to the second section, "ab", although
\* the first section, "Abc", contains it.
C14_Witness ==
    /\ pageStructureData.present
    /\ Len(pageStructureData.sections) = 3
    /\ pageStructureData.sections[1].label = TextAbc
    /\ pageStructureData.sections[2].label = LabelLowerAb
    /\ pageStructureData.sections[3].label = LabelAb
    /\ sectionName = NameUpperAb
    /\ matchedId = [called |-> TRUE, id |-> "s2"]

-----------------------------------------------------------------------------
(* The dock (specification SpecDock) *)

InitDock ==
    /\ ContentIdle /\ document = <<>> /\ ViewportIdle /\ TimeIdle /\ ImageIdle
    /\ PopupIdle /\ HelperIdle /\ DockIdle
    /\ BackgroundIdle
    /\ PollIdle
    /\ KeyIdle

NextDock ==
    \/ ShowImmersiveDockCmd
    \/ AutoPlayTimer
    \/ HideImmersiveDockCmd
    \/ CloseDockClick
    \/ TogglePlayPause
    \/ SkipTime
    \/ SeekToPosition
    \/ DockClock
    \/ DockTimeUpdate

SpecDock == InitDock /\ [][NextDock]_vars

\* C15 for the popup: after the audio has ended and after the popup has been
\* unloaded, handleAudioTimeUpdate is not registered on the audio.
C15_PopupTeardownDetaches ==
    lastEvent \in {"ended", "unload"} => ~timeupdateAttached

\* C15: every teardown of a playback leaves no timeupdate listener attached to the
\* audio element that was playing, and no playback-clock callback runs after the
\* teardown; here for the dock closed with closeDock.
C15_TeardownDetachesListener ==
    [][ /\ (lastDockEvent' = "closeDock" /\ dockAudio # 0)
            => ~audioElements'[dockAudio].timeupdate
        /\ lastDockEvent' = "timeupdate" => dockAudio # 0 ]_vars

-----------------------------------------------------------------------------
(* Pages of headings, paragraphs and boxes, for extractSectionText.  The    *)
(* text of the element at position i ends with the digit i, so that every   *)
(* text of a page occurs in it once.                                        *)

MaxTextNodes == 3

\* tag and text
TextKinds ==
    { <<"h1", <<"T","o","p">>>>, <<"h2", <<"S","e","c">>>>, <<"h3", <<"S","u","b">>>>,
      <<"p", <<"L","o","r","e","m">>>>, <<"p", <<"a">>>>, <<"div", <<"B","o","x">>>> }

RECURSIVE TextPagesOfSize(_)
TextPagesOfSize(n) ==
    IF n = 0 THEN {<<>>}
    ELSE {Append(doc, Block(k[1], "", "", p, k[2] \o <<ToString(n)>>, 0)) :
            <<doc, k, p>> \in
                {<<d, k, q>> \in TextPagesOfSize(n - 1) \X TextKinds \X (0..(n - 1)) :
                    q \in ParentsFor(d)}}

TextPages ==
    {WithTextContent(doc, Len(doc)) : doc \in UNION {TextPagesOfSize(n) : n \in 0..MaxTextNodes}}

\* a call of extractSectionText(element)
ExtractSectionTextCall ==
    \E element \in 0..Len(document) :
        /\ textTarget' = element
        /\ sectionText' = [called |-> TRUE, text |-> extractSectionText(document, element)]
        /\ UNCHANGED <<contentVars, viewportVars, timeVars, imageVars, keyVars, pollVars, backgroundVars, dockVars, popupVars,
                       sectionName, matchedId>>

InitSectionText ==
    /\ document \in TextPages
    /\ sections = <<>> /\ prevSections = <<>> /\ passes = 0
    /\ request = [command |-> "none"]
    /\ response = [sent |-> FALSE]
    /\ scrolledTo = 0
    /\ ViewportIdle /\ TimeIdle /\ PopupIdle /\ ImageIdle /\ HelperIdle /\ DockIdle
    /\ BackgroundIdle
    /\ PollIdle
    /\ KeyIdle

NextSectionText == ExtractSectionTextCall

SpecSectionText == InitSectionText /\ [][NextSectionText]_vars

\* the siblings that follow element n, and the first of them that is a heading
\* of the level of n or above (0: none)
FollowingSiblings(n) ==
    {m \in 1..Len(document) : m > n /\ document[m].parent = document[n].parent}

StopSibling(n) ==
    LET stops == {m \in FollowingSiblings(n) :
                     /\ IsHeading(document[m])
                     /\ HeadingLevel(document[m]) <= HeadingLevel(document[n])}
    IN  IF stops = {} THEN 0 ELSE CHOOSE m \in stops : \A k \in stops : m <= k

\* the following sibling of n that is element m or holds it (0: none)
SiblingAbove(n, m) ==
    LET chain == <<m>> \o Ancestors(document, m)
        hits  == {i \in 1..Len(chain) : chain[i] \in FollowingSiblings(n)}
    IN  IF hits = {} THEN 0 ELSE chain[CHOOSE i \in hits : TRUE]

\* the elements that carry a text node
TextBearing == {m \in 1..Len(document) : Children(document, m) = {}}

\* number of places at which needle occurs in hay
Occurrences(needle, hay) ==
    Cardinality({k \in 0..(Len(hay) - Len(needle)) :
                    SubSeq(hay, k + 1, k + Len(needle)) = needle})

\* the place of the one occurrence of the text of element m in the result
PlaceOf(m, hay) ==
    CHOOSE k \in 0..Len(hay) :
        SubSeq(hay, k + 1, k + Len(document[m].textContent)) = document[m].textContent

\* element m belongs to what extractSectionText(n) should return when every
\* following sibling before the stop is taken
Collected(n, m) ==
    /\ SiblingAbove(n, m) # 0
    /\ StopSibling(n) = 0 \/ SiblingAbove(n, m) < StopSibling(n)

\* the original statement of C16: on a heading, the text of an element is in
\* the result, once, if and only if the element is or lies in a following
\* sibling before the first following sibling heading of the same or a higher
\* level.
C16_AllFollowingTextIncludedOnce ==
    (sectionText.called /\ textTarget # 0 /\ IsHeading(document[textTarget])) =>
        \A m \in TextBearing :
            Occurrences(document[m].textContent, sectionText.text)
                = IF Collected(textTarget, m) THEN 1 ELSE 0

\* C16: on a heading of level n the result holds text only of the element
\* siblings that follow the heading, in document order, and nothing of the first
\* following sibling heading of level <= n or of what comes after it; the
\* heading's own text is not in it; a following sibling before the stop whose
\* trimmed text is longer than 2 characters is in it once, whole, nested
\* headings of level > n included (a sibling with a shorter text is skipped);
\* the document is left as it is and a second extraction returns the same text.
C16_SectionTextOfHeading ==
    [][ (textTarget' # 0 /\ IsHeading(document[textTarget'])) =>
          /\ document' = document
          /\ \A m \in TextBearing :
                Occurrences(document[m].textContent, sectionText'.text)
                    = IF /\ Collected(textTarget', m)
                         /\ Len(Trim(document[SiblingAbove(textTarget', m)].textContent)) > 2
                      THEN 1 ELSE 0
          /\ \A m1, m2 \in TextBearing :
                ( /\ m1 < m2
                  /\ Occurrences(document[m1].textContent, sectionText'.text) = 1
                  /\ Occurrences(document[m2].textContent, sectionText'.text) = 1 )
                    => PlaceOf(m1, sectionText'.text) < PlaceOf(m2, sectionText'.text)
          /\ Occurrences(document[textTarget'].textContent, sectionText'.text) = 0
          /\ (sectionText.called /\ textTarget = textTarget')
                => sectionText'.text = sectionText.text ]_vars

\* C16 witness: extraction on an h2 followed by an h3, a paragraph and another
\* h2 returned the h3 and the paragraph and not the second h2.
C16_Witness ==
    /\ Len(document) = 3
    /\ document[1].tag = "h2" /\ document[2].tag = "h3" /\ document[3].tag = "h2"
    /\ textTarget = 1
    /\ sectionText = [called |-> TRUE, text |-> <<"S","u","b","2">>]

-----------------------------------------------------------------------------
(* Malformed playback_time strings in a playback (specification SpecPopup) *)

\* "MM:SS" or "HH:MM:SS" with numeric fields
IsClockString(ts) ==
    LET f == Split(ts, ":")
    IN  Len(f) \in {2, 3} /\ \A i \in 1..Len(f) : IsNumberField(f[i])

\* C17, first half: a segment whose playback_time string is malformed is given
\* start time 0: every segment of the list carries, for an item of its name, the
\* parsed time of a well-formed string and 0 for a malformed one.
C17_MalformedTimeIsZero ==
    \A i \in 1..Len(immersivePlaybackTimes) :
        \E item \in SegmentItems :
            /\ item.name = immersivePlaybackTimes[i].name
            /\ immersivePlaybackTimes[i].time =
                  IF IsClockString(item.playback_time)
                  THEN parseTimeToSeconds(item.playback_time)
                  ELSE Num(0)

\* C17, second half: with Intro at "00:00" followed by Results at "garbage", the
\* tick at clock position 0 has moved the cursor to Results and asked for the
\* navigation to its section.
C17_EarlyNavigationReached ==
    /\ lastEvent = "timeupdate"
    /\ immersiveSummaryAudio.currentTime = 0
    /\ Len(immersivePlaybackTimes) = 2
    /\ immersivePlaybackTimes[1].name = NameIntro
    /\ immersivePlaybackTimes[2] =
          [name |-> NameResults, time |-> Num(0), sectionId |-> "results"]
    /\ currentSectionIndex = 1
    /\ navRequests = <<"results">>

-----------------------------------------------------------------------------
(* Extraction commands arriving during a playback (specification            *)
(* SpecInterleave): the popup holds a loaded audio with two segments, the    *)
(* page has two headings with ids, one without, and two images, and the dock *)
(* is playing with its second word active.                                   *)

InterleavePage ==
    << [PositionedHeading(0) EXCEPT !.id = "intro"],
       [PositionedHeading(1200) EXCEPT !.id = "results"],
       PositionedHeading(2000) >>

\* the popup after a successful poll: Intro at 00:00, Results at 01:30
PlaybackReady ==
    /\ pageStructureData = ReportedStructure
    /\ pollingInterval = FALSE
    /\ immersiveSummaryAudio =
          [present |-> TRUE, paused |-> TRUE, ended |-> FALSE, currentTime |-> 0]
    /\ immersivePlaybackTimes =
          << [name |-> NameIntro, time |-> Num(0), sectionId |-> "intro"],
             [name |-> NameResults, time |-> Num(90), sectionId |-> "results"] >>
    /\ currentSectionIndex = 0
    /\ timeupdateAttached = FALSE
    /\ navRequests = <<>>
    /\ lastEvent = "poll"

\* the dock four seconds into the playback of a three-word transcript
DockPlaying ==
    /\ sherpaDock = TRUE
    /\ dockAudio = 1
    /\ audioElements =
          <<[paused |-> FALSE, currentTime |-> 4, timeupdate |-> TRUE, pending |-> FALSE]>>
    /\ autoPlayTimers = 0
    /\ transcriptSegments = << <<"a">>, <<"b">>, <<"c">> >>
    /\ wordClasses = <<"spoken", "active", "">>
    /\ isPlaying = TRUE
    /\ lastDockEvent = "timeupdate"

InitInterleave ==
    /\ document = InterleavePage
    /\ sections = <<>> /\ prevSections = <<>> /\ passes = 0
    /\ request = [command |-> "none"]
    /\ response = [sent |-> FALSE]
    /\ scrolledTo = 0
    /\ scrollY = 0
    /\ viewportHeight = 800
    /\ viewportWidth = 1000
    /\ pageImages = <<Image(0, 0, 100, 100, SrcPhoto), Image(0, 700, 100, 200, SrcPhoto)>>
    /\ TimeIdle /\ HelperIdle
    /\ PlaybackReady
    /\ DockPlaying
    /\ BackgroundIdle
    /\ PollIdle
    /\ keydownListeners = 1
    /\ keyEffect = [code |-> "none", toggles |-> 0, closes |-> 0, dock |-> FALSE, audio |-> FALSE]

NextInterleave ==
    \/ ExtractViewportImagesCmd
    \/ ExtractCurrentSectionCmd
    \/ NavigateFromPopup
    \/ ScrollWindow
    \/ PlayImmersiveSummary
    \/ AudioTimeUpdate
    \/ AudioEnded

SpecInterleave == InitInterleave /\ [][NextInterleave]_vars

ExtractionCommands == {"extract_viewport_images", "extract_current_section"}

\* C18: a step in which an extraction command is answered changes nothing but
\* the message and the answer: the document and its ids, the scroll target, the
\* window, the dock and its transcript, and the synchronizer's segments, cursor
\* and requests are the same afterwards, so that the ticks and navigations that
\* follow find the state they would have found without it.
C18_ExtractionChangesNoState ==
    [][ ( /\ request'.command \in ExtractionCommands
          /\ <<request, response>>' # <<request, response>> )
        => /\ document' = document
           /\ UNCHANGED <<sections, prevSections, passes, scrolledTo>>
           /\ UNCHANGED <<viewportVars, imageVars, keyVars, pollVars, backgroundVars, timeVars, helperVars>>
           /\ UNCHANGED dockVars
           /\ UNCHANGED popupVars ]_vars

\* C18 witness: the images were extracted after the tick at 95 had moved the
\* cursor to Results and the page had been scrolled to its section; the heading
\* without an id still has none.
C18_Witness ==
    /\ request.command = "extract_viewport_images"
    /\ Len(response.images) = 2
    /\ lastEvent = "timeupdate"
    /\ immersiveSummaryAudio.currentTime = 95
    /\ currentSectionIndex = 1
    /\ navRequests = <<"results">>
    /\ scrolledTo = 2
    /\ document[3].id = ""
    /\ wordClasses = <<"spoken", "active", "">>

-----------------------------------------------------------------------------
(* The id of a landmark (specification Spec) *)

\* the id a mapping pass reports for element n, "" when n is not reported
ReportedId(secs, n) ==
    IF \E i \in 1..Len(secs) : secs[i].node = n
    THEN secs[CHOOSE i \in 1..Len(secs) : secs[i].node = n].id
    ELSE ""

\* the elements that had no id before the pass and carry one after it
Synthesized(old, new) == {m \in 1..Len(old) : old[m].id = "" /\ new[m].id # ""}

\* the reported landmarks of a pass, in the order the pass visits them
ReportedLandmarks(secs) == {secs[i].node : i \in {j \in 1..Len(secs) : secs[j].type = "landmark"}}

\* C19 as stated: a landmark gets its own id, else its parent's, else its
\* nearest ancestor's, else a synthesized id numbered by a counter that counts
\* landmarks only.
C19_LandmarkIdAsHeadingId ==
    [][ passes' = passes + 1 =>
          \A n \in ReportedLandmarks(sections') :
              LET found == ResolveHeadingId(document, n)
                  before == {m \in Synthesized(document, document') :
                                IsLandmark(document[m]) /\ m < n}
              IN  ReportedId(sections', n) =
                     IF found # "" THEN found
                     ELSE GenId("landmark", Cardinality(before)) ]_vars

\* C19, amended: a landmark keeps its own id when it has one, whatever ids its
\* ancestors carry, and otherwise is given a synthesized id, written back onto
\* it, whose number continues the count of the ids the pass has synthesized so
\* far, for headings and landmarks alike.
C19_LandmarkIdOwnOrSynthesized ==
    [][ passes' = passes + 1 =>
          \A n \in 1..Len(document) :
              IsLandmark(document[n]) =>
                  LET before == {m \in Synthesized(document, document') :
                                    IsHeading(document[m])
                                    \/ (IsLandmark(document[m]) /\ m < n)}
                  IN  /\ document'[n].id =
                            IF document[n].id # "" THEN document[n].id
                            ELSE GenId("landmark", Cardinality(before))
                      /\ n \in ReportedLandmarks(sections')
                            => ReportedId(sections', n) = document'[n].id ]_vars

\* C19 witness: after the first pass a reported landmark inside a container
\* with an id carries the synthesized id numbered 1, the heading of the page
\* having taken number 0.
C19_Witness ==
    /\ passes = 1
    /\ \E n \in ReportedLandmarks(sections) :
          /\ ParentId(document, n) # ""
          /\ document[n].id = GenId("landmark", 1)
          /\ ReportedId(sections, n) = GenId("landmark", 1)
    /\ \E h \in 1..Len(document) :
          IsHeading(document[h]) /\ document[h].id = GenId("heading", 0)

-----------------------------------------------------------------------------
(* The transcript highlight (specification SpecDock) *)

\* the words carrying class c, by position (the first word is 1)
WordsOfClass(classes, c) == {i \in 1..Len(classes) : classes[i] = c}

\* updateTranscriptHighlight ran to its end in this step
HighlightTick ==
    /\ lastDockEvent' = "timeupdate"
    /\ audioElements' # audioElements
    /\ dockAudio # 0 /\ sherpaDock
    /\ Len(transcriptSegments) > 0

DockJustShown(transcript) ==
    /\ sherpaDock = TRUE
    /\ dockAudio = 1
    /\ audioElements = <<NewDockAudio>>
    /\ autoPlayTimers = 1
    /\ transcriptSegments = TranscriptWords(transcript)
    /\ wordClasses = [i \in 1..Len(TranscriptWords(transcript)) |-> ""]
    /\ isPlaying = FALSE
    /\ lastDockEvent = "show_immersive_dock"

\* one playback in the dock, from the moment the dock is shown
InitHighlight ==
    /\ ContentIdle /\ document = <<>> /\ ViewportIdle /\ TimeIdle /\ ImageIdle
    /\ PopupIdle /\ HelperIdle
    /\ \E transcript \in DockTranscripts \ {<<>>} : DockJustShown(transcript)
    /\ BackgroundIdle
    /\ PollIdle
    /\ keydownListeners = 1
    /\ keyEffect = [code |-> "none", toggles |-> 0, closes |-> 0, dock |-> FALSE, audio |-> FALSE]

NextHighlight ==
    \/ AutoPlayTimer
    \/ TogglePlayPause
    \/ SkipTime
    \/ SeekToPosition
    \/ DockClock
    \/ DockTimeUpdate
    \/ CloseDockClick

SpecHighlight == InitHighlight /\ [][NextHighlight]_vars

-----------------------------------------------------------------------------
(* background.js: handlePageAnalysis, speakText and the message listener.   *)
(* A run of handlePageAnalysis is followed from await to await; chrome.tts   *)
(* speaks one utterance at a time and reports 'end' or 'error' to the        *)
(* utterance's onEvent, and 'interrupted' when the utterance is stopped or   *)
(* replaced, an event speakText's onEvent does not handle.                   *)

MaxAnalyses == 3

othersUnchanged ==
    UNCHANGED <<contentVars, viewportVars, timeVars, imageVars, keyVars, pollVars, dockVars, helperVars, popupVars>>

\* notifyPopup(status) and chrome.runtime.sendMessage({type}) as entries of the log
Status(s) == "status:" \o s

\* the run awaits a speech that chrome.tts is no longer speaking: its promise
\* stays pending, so the run never takes another step
Abandoned ==
    \/ analysisPc = "speaking" /\ utterance # "summary"
    \/ analysisPc = "speakingError" /\ utterance # "error"

\* page_structure_extracted (manual) or tabs.onUpdated (auto): handlePageAnalysis
\* starts and runs to its first await; the variables follow the latest run
StartAnalysis ==
    \E auto \in BOOLEAN :
        /\ analysisPc \in {"idle", "done"} \/ Abandoned
        /\ analyses < MaxAnalyses
        /\ analyses' = analyses + 1
        /\ autoTriggered' = auto
        /\ analysisLog' = <<Status("loading")>>
        /\ analysisResponse' = [sent |-> FALSE]
        /\ analysisPc' = "summarizing"
        /\ UNCHANGED <<utterance, speakTextPending>>
        /\ othersUnchanged

\* SummaryProduced with analysis_complete sent only after the speech was started
SummaryProduced_SpeaksFirst ==
    /\ analysisPc = "summarizing"
    /\ IF autoTriggered
       THEN /\ analysisLog' = analysisLog \o <<"analysis_complete">>
            /\ analysisPc' = "notifying"
            /\ UNCHANGED utterance
       ELSE /\ analysisLog' = analysisLog \o
                 <<Status("speaking"), "tts_started", "speak:summary", "analysis_complete">>
            /\ analysisPc' = "speaking"
            /\ utterance' = "summary"
    /\ UNCHANGED <<autoTriggered, analysisResponse, speakTextPending, analyses>>
    /\ othersUnchanged

\* the summary has arrived: analysis_complete, then either the speech or the
\* notification sound
SummaryProduced ==
    /\ analysisPc = "summarizing"
    /\ IF autoTriggered
       THEN /\ analysisLog' = analysisLog \o <<"analysis_complete">>
            /\ analysisPc' = "notifying"
            /\ UNCHANGED utterance
       ELSE /\ analysisLog' = analysisLog \o
                 <<"analysis_complete", Status("speaking"), "tts_started", "speak:summary">>
            /\ analysisPc' = "speaking"
            /\ utterance' = "summary"
    /\ UNCHANGED <<autoTriggered, analysisResponse, speakTextPending, analyses>>
    /\ othersUnchanged

\* the catch block up to its await: status 'error', and the spoken apology
\* unless the run was auto-triggered
CatchError ==
    IF autoTriggered
    THEN /\ analysisLog' = analysisLog \o <<Status("error"), "analysis_error">>
         /\ analysisPc' = "done"
         /\ UNCHANGED <<utterance, analysisResponse>>
    ELSE /\ analysisLog' = analysisLog \o <<Status("error"), "speak:error">>
         /\ analysisPc' = "speakingError"
         /\ utterance' = "error"
         /\ UNCHANGED analysisResponse

\* no summary: the error is thrown inside the try block
SummaryFailed ==
    /\ analysisPc = "summarizing"
    /\ CatchError
    /\ UNCHANGED <<autoTriggered, speakTextPending, analyses>>
    /\ othersUnchanged

\* play_notification_sound has been answered (or has failed): status 'complete'
NotificationDone ==
    /\ analysisPc = "notifying"
    /\ analysisLog' = analysisLog \o <<Status("complete")>>
    /\ analysisPc' = "done"
    /\ UNCHANGED <<autoTriggered, analysisResponse, utterance, speakTextPending, analyses>>
    /\ othersUnchanged

\* the rest of the catch block once the apology is over: analysis_error, rethrow
AfterApology ==
    /\ analysisLog' = analysisLog \o <<"analysis_error">>
    /\ analysisPc' = "done"
    /\ analysisResponse' = [sent |-> TRUE, status |-> "error"]

\* chrome.tts reports 'end' for the utterance it is speaking
TtsEnd ==
    /\ utterance # "none"
    /\ utterance' = "none"
    /\ CASE utterance = "summary" ->
              /\ analysisLog' = analysisLog \o <<"tts_ended", Status("complete")>>
              /\ analysisPc' = "done"
              /\ analysisResponse' = [sent |-> TRUE, status |-> "success"]
              /\ UNCHANGED speakTextPending
         [] utterance = "error" ->
              /\ AfterApology
              /\ UNCHANGED speakTextPending
         [] OTHER ->
              /\ speakTextPending' = FALSE
              /\ UNCHANGED <<analysisLog, analysisPc, analysisResponse>>
    /\ UNCHANGED <<autoTriggered, analyses>>
    /\ othersUnchanged

\* chrome.tts reports 'error' for the utterance it is speaking
TtsError ==
    /\ utterance # "none"
    /\ CASE utterance = "summary" ->
              /\ analysisLog' = analysisLog \o <<Status("error"), "speak:error">>
              /\ analysisPc' = "speakingError"
              /\ utterance' = "error"
              /\ UNCHANGED <<analysisResponse, speakTextPending>>
         [] utterance = "error" ->
              /\ AfterApology
              /\ utterance' = "none"
              /\ UNCHANGED speakTextPending
         [] OTHER ->
              /\ speakTextPending' = FALSE
              /\ utterance' = "none"
              /\ UNCHANGED <<analysisLog, analysisPc, analysisResponse>>
    /\ UNCHANGED <<autoTriggered, analyses>>
    /\ othersUnchanged

\* onMessage stop_tts and start-recording: chrome.tts.stop()
StopTts ==
    /\ utterance # "none"
    /\ utterance' = "none"
    /\ UNCHANGED <<analysisPc, autoTriggered, analysisLog, analysisResponse,
                   speakTextPending, analyses>>
    /\ othersUnchanged

\* onMessage speak_text: speakText stops the current utterance and speaks its own
SpeakTextCmd ==
    /\ ~speakTextPending
    /\ speakTextPending' = TRUE
    /\ utterance' = "speak_text"
    /\ UNCHANGED <<analysisPc, autoTriggered, analysisLog, analysisResponse, analyses>>
    /\ othersUnchanged

InitBackground ==
    /\ ContentIdle /\ document = <<>> /\ ViewportIdle /\ TimeIdle /\ ImageIdle
    /\ PopupIdle /\ HelperIdle /\ DockIdle
    /\ BackgroundIdle
    /\ PollIdle
    /\ KeyIdle

NextBackground ==
    \/ StartAnalysis
    \/ SummaryProduced
    \/ SummaryFailed
    \/ NotificationDone
    \/ TtsEnd
    \/ TtsError
    \/ StopTts
    \/ SpeakTextCmd

SpecBackground == InitBackground /\ [][NextBackground]_vars


\* the same with the progress the scheduler guarantees: a pending summary
\* request settles, the notification is answered, an utterance that is not
\* stopped is spoken to its end
SpecBackgroundLive ==
    /\ SpecBackground
    /\ WF_vars(SummaryProduced \/ SummaryFailed)
    /\ WF_vars(NotificationDone)
    /\ WF_vars(TtsEnd)

-----------------------------------------------------------------------------
(* Claims about the page analysis (specifications SpecBackground and         *)
(* SpecBackgroundLive)                                                       *)

Emitted(m) == \E i \in 1..Len(analysisLog) : analysisLog[i] = m

IsPrefix(a, b) == Len(a) <= Len(b) /\ a = SubSeq(b, 1, Len(a))

\* what a manual analysis with a summary emits, "speak:summary" being the speech
ManualSequence ==
    <<Status("loading"), "analysis_complete", Status("speaking"), "tts_started",
      "speak:summary", "tts_ended", Status("complete")>>

\* the entries of the log that belong to ManualSequence, in the order emitted
RECURSIVE OfManualSequence(_)
OfManualSequence(log) ==
    IF log = <<>> THEN <<>>
    ELSE IF \E i \in 1..Len(ManualSequence) : ManualSequence[i] = log[1]
         THEN <<log[1]>> \o OfManualSequence(Tail(log))
         ELSE OfManualSequence(Tail(log))

C21_AutoWitness ==
    /\ autoTriggered
    /\ analysisLog = <<Status("loading"), "analysis_complete", Status("complete")>>

\* the analysis has announced its end and answered the request
AnalysisFinished ==
    /\ Emitted(Status("complete")) \/ Emitted(Status("error"))
    /\ analysisResponse.sent

\* C26: an analysis that has announced 'speaking' eventually announces
\* 'complete' or 'error' and answers the request.
C26_SpeakingLeadsToCompletion ==
    Emitted(Status("speaking")) ~> AnalysisFinished

\* as long as no utterance of the analysis is stopped or replaced, it does
C26_CompletesUnlessInterrupted ==
    Emitted(Status("speaking")) ~> (AnalysisFinished \/ Abandoned)

\* the state C26 fails in: 'speaking' announced, the speech stopped, nothing pending
C26_StuckAfterStop ==
    /\ analysisPc = "speaking"
    /\ utterance = "none"
    /\ ~analysisResponse.sent
    /\ analysisLog = <<Status("loading"), "analysis_complete", Status("speaking"),
                       "tts_started", "speak:summary">>

-----------------------------------------------------------------------------
(* popup.js: polling for the immersive-summary job *)

\* const maxPolls = 60
maxPolls == 60

\* most poll requests awaiting their response at one time
MaxInFlight == 2

\* most immersive-summary jobs started
MaxJobs == 2

\* transcripts a successful poll may be followed by
PollingPayloads == {p \in TranscriptPayloads : Len(p) <= 1}

InFlightTotal == inFlight.current + inFlight.below + inFlight.atLimit

\* clearInterval(pollingInterval); pollingInterval = null
ClearInterval ==
    /\ activeIntervals' = IF pollingInterval THEN activeIntervals - 1 ELSE activeIntervals
    /\ pollingInterval' = FALSE

\* handleCreateImmersiveSummary: the POST that creates the job either fails, and
\* the button shows the error, or succeeds, and startPollingForImmersiveSummary
\* clears the interval that exists and sets a new one with its own pollCount;
\* requests of the earlier call stay in flight with the count they closed over
HandleCreateImmersiveSummary ==
    /\ buttonHandler = "create"
    /\ buttonState # "loading"
    /\ \/ /\ buttonState' = "error"
          /\ lastEvent' = "createFailed"
          /\ UNCHANGED <<pollCount, inFlight, activeIntervals, jobs, pollingInterval>>
       \/ /\ jobs < MaxJobs
          /\ jobs' = jobs + 1
          /\ buttonState' = "loading"
          /\ activeIntervals' =
                (IF pollingInterval THEN activeIntervals - 1 ELSE activeIntervals) + 1
          /\ pollingInterval' = TRUE
          /\ pollCount' = 0
          /\ inFlight' =
                [current |-> 0,
                 below   |-> inFlight.below
                               + (IF pollCount < maxPolls THEN inFlight.current ELSE 0),
                 atLimit |-> inFlight.atLimit
                               + (IF pollCount >= maxPolls THEN inFlight.current ELSE 0)]
          /\ lastEvent' = "create"
    /\ UNCHANGED <<contentVars, viewportVars, timeVars, imageVars, keyVars, backgroundVars,
                   dockVars, helperVars, pageStructureData, immersiveSummaryAudio,
                   immersivePlaybackTimes, currentSectionIndex, timeupdateAttached,
                   navRequests, buttonHandler>>

\* the interval callback up to its fetch: pollCount++ and the request leaves;
\* the interval fires whether or not earlier requests have been answered
PollingTick ==
    /\ activeIntervals > 0
    /\ InFlightTotal < MaxInFlight
    /\ pollCount' = pollCount + 1
    /\ inFlight' = [inFlight EXCEPT !.current = @ + 1]
    /\ lastEvent' = "tick"
    /\ UNCHANGED <<contentVars, viewportVars, timeVars, imageVars, keyVars, backgroundVars,
                   dockVars, helperVars, pageStructureData, pollingInterval,
                   immersiveSummaryAudio, immersivePlaybackTimes, currentSectionIndex,
                   timeupdateAttached, navRequests, activeIntervals, buttonState,
                   buttonHandler, jobs>>

\* pollCount >= maxPolls as the callback of a request of the given call sees it
AtLimit(call) ==
    CASE call = "current" -> pollCount >= maxPolls
      [] call = "below"   -> FALSE
      [] call = "atLimit" -> TRUE

\* the button after a successful response: 'done' is set, then the attempt count
\* is tested, and at the limit the time-out is thrown and caught
ButtonAfterSuccess(limit) == IF limit THEN "error" ELSE "done"

\* the interval callback from the response of its fetch on
PollingResponse(call, outcome) ==
    /\ inFlight[call] > 0
    /\ inFlight' = [inFlight EXCEPT ![call] = @ - 1]
    /\ CASE outcome = "ok" ->
              /\ ClearInterval
              /\ immersiveSummaryAudio' =
                    [present |-> TRUE, paused |-> TRUE, ended |-> FALSE, currentTime |-> 0]
              /\ \/ \E items \in PollingPayloads :
                       immersivePlaybackTimes' \in
                           SortedArrangements(ParseSegments(pageStructureData, items))
                 \/ UNCHANGED immersivePlaybackTimes
              /\ buttonState' = ButtonAfterSuccess(AtLimit(call))
              /\ buttonHandler' = "play"
              /\ lastEvent' = "poll"
         [] outcome = "404" ->
              /\ IF AtLimit(call)
                 THEN ClearInterval /\ buttonState' = "error"
                 ELSE UNCHANGED <<activeIntervals, pollingInterval, buttonState>>
              /\ lastEvent' = "poll404"
              /\ UNCHANGED <<immersiveSummaryAudio, immersivePlaybackTimes, buttonHandler>>
         [] outcome = "error" ->
              /\ ClearInterval
              /\ buttonState' = "error"
              /\ lastEvent' = "pollError"
              /\ UNCHANGED <<immersiveSummaryAudio, immersivePlaybackTimes, buttonHandler>>
    /\ UNCHANGED <<contentVars, viewportVars, timeVars, imageVars, keyVars, backgroundVars,
                   dockVars, helperVars, pageStructureData, currentSectionIndex,
                   timeupdateAttached, navRequests, pollCount, jobs>>

PollingCalls == {"current", "below", "atLimit"}

PollingOutcomes == {"ok", "404", "error"}

PollingResponds == \E call \in PollingCalls, outcome \in PollingOutcomes : PollingResponse(call, outcome)

InitPolling ==
    /\ pageStructureData = NoPageStructure
    /\ pollingInterval = FALSE
    /\ immersiveSummaryAudio = NoAudio
    /\ immersivePlaybackTimes = <<>>
    /\ currentSectionIndex = 0
    /\ timeupdateAttached = FALSE
    /\ navRequests = <<>>
    /\ lastEvent = "load"
    /\ ContentIdle /\ document = <<>> /\ ViewportIdle /\ TimeIdle /\ ImageIdle /\ HelperIdle /\ DockIdle
    /\ BackgroundIdle
    /\ PollIdle
    /\ KeyIdle

NextPolling ==
    \/ HandleCreateImmersiveSummary
    \/ PollingTick
    \/ PollingResponds

SpecPolling == InitPolling /\ [][NextPolling]_vars

\* every request is answered, and a set interval keeps firing
SpecPollingLive ==
    /\ SpecPolling
    /\ WF_vars(PollingTick)
    /\ WF_vars(PollingResponds)

\* C22 (as stated): polling stops at the first success, at the first response
\* that is neither success nor 404, or once 60 attempts have been made, no
\* request leaves after the 60th attempt, and at most one interval is active
C22_PollingBounded ==
    /\ pollCount <= maxPolls
    /\ activeIntervals <= 1
    /\ activeIntervals = (IF pollingInterval THEN 1 ELSE 0)
    /\ lastEvent \in {"poll", "pollError"} => activeIntervals = 0

\* the parts of C22 the code keeps: at most one interval, cleared by a success
\* and by a failure
C22_OneInterval ==
    /\ activeIntervals <= 1
    /\ activeIntervals = (IF pollingInterval THEN 1 ELSE 0)
    /\ lastEvent \in {"poll", "pollError"} => activeIntervals = 0

\* with every request answered, a set interval is eventually cleared
C22_PollingStops == (activeIntervals > 0) ~> (activeIntervals = 0)

\* a 61st request has left while the answers to earlier ones were awaited
C22_RequestAfterLimit == pollCount > maxPolls

\* C27 (as stated): once a poll has returned the audio the button is 'done' and
\* stays there, on whichever attempt the audio arrived
C27_DoneAfterAudio == immersiveSummaryAudio.present => buttonState = "done"

\* the audio arrived on the 60th attempt and the button shows the error
C27_ErrorOnLastAttempt ==
    /\ lastEvent = "poll"
    /\ pollCount = maxPolls
    /\ immersiveSummaryAudio.present
    /\ buttonState = "error"

\* the audio arrived on an earlier attempt and the button is 'done'
C27_DoneBeforeLimit ==
    /\ lastEvent = "poll"
    /\ pollCount < maxPolls
    /\ buttonState = "done"

-----------------------------------------------------------------------------
(* popup.js: the first segment of a playback *)

\* C23: the segment at index 0 of the sorted list never triggers a navigation,
\* whatever its start time and whether or not its sectionId is resolved: a tick
\* that requests a navigation leaves the cursor on an index >= 1, and a tick
\* that leaves the cursor on index 0 requests nothing.
C23_FirstSegmentNeverNavigates ==
    [][lastEvent' = "timeupdate" =>
          /\ currentSectionIndex' = 0 => navRequests' = <<>>
          /\ navRequests' # <<>> =>
                /\ currentSectionIndex' >= 1
                /\ currentSectionIndex' # currentSectionIndex]_vars

\* C23 witness: the clock is inside a first segment that starts after 0 and has
\* a resolved sectionId, and the tick requested no navigation.
C23_Witness ==
    /\ lastEvent = "timeupdate"
    /\ timeupdateAttached
    /\ currentSectionIndex = 0
    /\ immersivePlaybackTimes # <<>>
    /\ immersivePlaybackTimes[1].sectionId # NullId
    /\ ~immersivePlaybackTimes[1].time.nan
    /\ immersivePlaybackTimes[1].time.v > 0
    /\ immersivePlaybackTimes[1].time.v <= immersiveSummaryAudio.currentTime
    /\ navRequests = <<>>

-----------------------------------------------------------------------------
(* popup.js and content.js: a navigation that fails during playback *)

\* the page after the element with id "intro" has gone
PageWithoutIntro ==
    << [PositionedHeading(1200) EXCEPT !.id = "results"],
       PositionedHeading(2000) >>

\* the popup after a successful poll: Results at 00:00, Intro at 00:30,
\* Results at 01:30
ThreeSegmentsReady ==
    /\ pageStructureData = ReportedStructure
    /\ pollingInterval = FALSE
    /\ immersiveSummaryAudio =
          [present |-> TRUE, paused |-> TRUE, ended |-> FALSE, currentTime |-> 0]
    /\ immersivePlaybackTimes =
          << [name |-> NameResults, time |-> Num(0), sectionId |-> "results"],
             [name |-> NameIntro, time |-> Num(30), sectionId |-> "intro"],
             [name |-> NameResults, time |-> Num(90), sectionId |-> "results"] >>
    /\ currentSectionIndex = 0
    /\ timeupdateAttached = FALSE
    /\ navRequests = <<>>
    /\ lastEvent = "poll"

InitFailedNavigation ==
    /\ document \in {InterleavePage, PageWithoutIntro}
    /\ sections = <<>> /\ prevSections = <<>> /\ passes = 0
    /\ request = [command |-> "none"]
    /\ response = [sent |-> FALSE]
    /\ scrolledTo = 0
    /\ ViewportIdle /\ TimeIdle /\ ImageIdle /\ HelperIdle /\ DockIdle
    /\ ThreeSegmentsReady
    /\ BackgroundIdle
    /\ PollIdle
    /\ KeyIdle

NextFailedNavigation ==
    \/ NavigateFromPopup
    \/ PlayImmersiveSummary
    \/ AudioTimeUpdate
    \/ AudioEnded

SpecFailedNavigation == InitFailedNavigation /\ [][NextFailedNavigation]_vars

\* the content script has answered a navigate_to_section message with a failure
NavigationFailed ==
    /\ request.command = "navigate_to_section"
    /\ "ok" \in DOMAIN response
    /\ ~response.ok

\* C29: a navigation that fails during playback does not stop the
\* synchronization: the failed answer changes nothing in the popup (the cursor
\* stays on the new segment, the timeupdate listener stays attached), a tick
\* that does not move the cursor requests nothing (no retry), and every tick
\* that moves the cursor onto a resolved segment requests its navigation,
\* whatever the answer to the previous one was.
C29_FailedNavigationKeepsSync ==
    [][/\ (NavigationFailed' /\ <<request, response>>' # <<request, response>>)
             => UNCHANGED popupVars
       /\ (lastEvent' = "timeupdate" /\ timeupdateAttached /\ UNCHANGED <<request, response>>) =>
             LET seg == immersivePlaybackTimes[currentSectionIndex' + 1]
             IN  /\ currentSectionIndex' = currentSectionIndex => navRequests' = <<>>
                 /\ (currentSectionIndex' # currentSectionIndex /\ seg.sectionId # NullId)
                       => navRequests' = <<seg.sectionId>>]_vars

\* C29 witness: the navigation to the second segment has failed and the tick
\* that crossed into the third segment has requested its navigation.
C29_Witness ==
    /\ NavigationFailed
    /\ request.sectionId = "intro"
    /\ lastEvent = "timeupdate"
    /\ currentSectionIndex = 2
    /\ navRequests = <<"results">>

-----------------------------------------------------------------------------
(* extractCurrentSectionContent: the center-based scan *)

\* C24: whenever no heading lies inside [scrollY-200, scrollY+viewportHeight+200]
\* the center-based scan finds no heading either, at every scroll position and
\* viewport height, so the center step never decides the located section.
C24_CenterNeverDecides ==
    request.command = "extract_current_section" =>
        LET r  == response.sectionContent
            sY == r.scrollPosition
        IN  /\ InWindow(sY, viewportHeight) = {} =>
                  CenterHeading(document, sY, viewportHeight) = 0
            /\ r.step # "center"

\* C24 witness: the page has headings, none of them inside the window, and the
\* locator went on to the main-content and body steps.
C24_Witness ==
    /\ request.command = "extract_current_section"
    /\ document # <<>>
    /\ InWindow(response.sectionContent.scrollPosition, viewportHeight) = {}
    /\ response.sectionContent.step \in {"main", "body"}

-----------------------------------------------------------------------------
(* content.js: the ids a mapping pass returns, as navigation targets *)

\* C30: after a mapping pass, on the document the pass has left, every id in
\* the returned sections resolves to an element of the document, and a
\* navigate_to_section message carrying a returned id is answered {ok: true}.
C30_ReturnedIdsResolve ==
    /\ \A i \in 1..Len(sections) :
          /\ getElementById(document, sections[i].id) # 0
          /\ navigateToSection(document, sections[i].id, scrolledTo).response.ok
    /\ ( /\ request.command = "navigate_to_section"
         /\ \E i \in 1..Len(sections) : sections[i].id = request.sectionId )
          => response.ok

\* C30 witness: a pass has returned a synthesized id and an inherited id, and
\* the navigation to the synthesized one has been answered.
C30_Witness ==
    /\ passes >= 1
    /\ request.command = "navigate_to_section"
    /\ request.sectionId = GenId("heading", 0)
    /\ \E i, j \in 1..Len(sections) :
          /\ sections[i].id = request.sectionId
          /\ sections[j].id = "a" /\ document[sections[j].node].id # "a"
    /\ response.ok
    /\ scrolledTo = getElementById(document, request.sectionId)

-----------------------------------------------------------------------------
(* content.js: mapping passes over a page that grows between them *)

\* the elements a page script may add: an id-less heading or landmark
InsertedKinds == {k \in ElementKinds : k[1] # "div"}

\* the document with el as the new element at position k, the elements from k
\* on moved down by one
InsertBefore(doc, k, el) ==
    LET Moved(e) == IF e.parent >= k THEN [e EXCEPT !.parent = @ + 1] ELSE e
    IN  [n \in 1..(Len(doc) + 1) |->
            IF n < k THEN doc[n]
            ELSE IF n = k THEN el
            ELSE Moved(doc[n - 1])]

\* the page adds an id-less heading or landmark: in front of an element, as its
\* sibling, or at the end of the document
InsertElement ==
    /\ Len(document) < MaxNodes
    /\ \E kind \in InsertedKinds, k \in 1..(Len(document) + 1) :
          \E p \in IF k <= Len(document) THEN {document[k].parent} ELSE ParentsFor(document) :
             document' = InsertBefore(document, k, Element(kind[1], kind[2], "", p, kind[3]))
    /\ UNCHANGED <<sections, prevSections, passes, request, response, scrolledTo,
                   viewportVars, timeVars, imageVars, keyVars, pollVars, backgroundVars,
                   dockVars, helperVars, popupVars>>

InitInsertion ==
    /\ document \in {d \in Pages : Len(d) < MaxNodes}
    /\ ContentIdle /\ ViewportIdle /\ TimeIdle /\ PopupIdle /\ ImageIdle /\ HelperIdle /\ DockIdle
    /\ BackgroundIdle
    /\ PollIdle
    /\ KeyIdle

NextInsertion ==
    \/ ParsePageForMappingCmd
    \/ InsertElement

SpecInsertion == InitInsertion /\ [][NextInsertion]_vars

\* C25 (as stated): over mapping passes interleaved with insertions of id-less
\* headings and landmarks, an id synthesized by a pass is never equal to an id
\* another element of the document carries.
C25_SynthesizedIdIsFresh ==
    [][passes' = passes + 1 =>
          \A m \in Synthesized(document, document') :
              \A n \in 1..Len(document') : n # m => document'[n].id # document'[m].id]_vars

\* two elements of the document carry the same synthesized id
C25_DuplicateSynthesizedId ==
    \E m, n \in 1..Len(document) :
        /\ m # n
        /\ document[m].id = document[n].id
        /\ document[m].id \in {GenId(kind, c) : kind \in {"heading", "landmark"}, c \in 0..MaxNodes}

\* within one pass over a page that carried no synthesized id the synthesized
\* ids are fresh
C25_FirstPassFresh ==
    [][(passes = 0 /\ passes' = 1) =>
          \A m \in Synthesized(document, document') :
              \A n \in 1..Len(document') : n # m => document'[n].id # document'[m].id]_vars

-----------------------------------------------------------------------------
(* The dock's keyboard shortcuts *)

InitKeyboard ==
    /\ ContentIdle /\ document = <<>> /\ ViewportIdle /\ TimeIdle /\ ImageIdle
    /\ PopupIdle /\ HelperIdle /\ DockIdle
    /\ BackgroundIdle
    /\ PollIdle
    /\ KeyIdle

\* docks shown and closed, and keys pressed on the page
NextKeyboard ==
    \/ ShowImmersiveDockCmd
    \/ AutoPlayTimer
    \/ HideImmersiveDockCmd
    \/ CloseDockClick
    \/ KeyDown

SpecKeyboard == InitKeyboard /\ [][NextKeyboard]_vars

\* C28 (as stated): after any number of show / close cycles of the dock, one
\* Space press on the shown dock toggles playback exactly once and one Escape
\* press closes the dock exactly once.
C28_OneKeyOneEffect ==
    /\ (keyEffect.code = "Space" /\ keyEffect.dock /\ keyEffect.audio) => keyEffect.toggles = 1
    /\ (keyEffect.code = "Escape" /\ keyEffect.dock) => keyEffect.closes = 1

\* the part of C28 the code keeps: Escape closes the dock once, the listeners
\* that run after the first finding no dock
C28_EscapeClosesOnce ==
    (keyEffect.code = "Escape" /\ keyEffect.dock) => keyEffect.closes = 1

\* a dock shown for the second time: one Space press has toggled twice and
\* left the playback as it was
C28_SpaceToggledTwice ==
    /\ lastDockEvent = "keydown"
    /\ keyEffect.code = "Space"
    /\ keydownListeners = 2
    /\ keyEffect.toggles = 2

\* on the first dock of a page one Space press toggles once
C28_FirstDockTogglesOnce ==
    keydownListeners = 1 =>
        ((keyEffect.code = "Space" /\ keyEffect.dock /\ keyEffect.audio) => keyEffect.toggles = 1)

====
